---- MODULE Spec2Model ----
(***************************************************************************)
(* Rule-based symptom-triage engine of the diagnostics service:            *)
(* SafetyService, ReasoningService, VisionService, SessionService,         *)
(* TriageOrchestrator and the triage HTTP endpoints that drive them.       *)
(*                                                                         *)
(* Texts are TLA+ strings; Python's substring test, str.lower() and        *)
(* re.search are modelled character by character on those strings.         *)
(***************************************************************************)
EXTENDS Integers, Sequences, FiniteSets, TLC

(***************************************************************************)
(* Python string primitives                                                *)
(***************************************************************************)

\* Python `k in t` on strings.
Contains(t, k) ==
    \E i \in 1..(Len(t) - Len(k) + 1) : SubSeq(t, i, i + Len(k) - 1) = k

\* Python any(k in t for k in kws), kws a sequence of strings.
AnyIn(kws, t) == \E n \in 1..Len(kws) : Contains(t, kws[n])

UpperToLower ==
    [A |-> "a", B |-> "b", C |-> "c", D |-> "d", E |-> "e", F |-> "f",
     G |-> "g", H |-> "h", I |-> "i", J |-> "j", K |-> "k", L |-> "l",
     M |-> "m", N |-> "n", O |-> "o", P |-> "p", Q |-> "q", R |-> "r",
     S |-> "s", T |-> "t", U |-> "u", V |-> "v", W |-> "w", X |-> "x",
     Y |-> "y", Z |-> "z"]

LowerChar(c) == IF c \in DOMAIN UpperToLower THEN UpperToLower[c] ELSE c

\* The characters a..b of s in lower case (by halves, which keeps the
\* recursion shallow on long texts).
RECURSIVE LowerFrom(_, _, _)
LowerFrom(s, a, b) ==
    IF a > b THEN ""
    ELSE IF a = b THEN LowerChar(SubSeq(s, a, a))
    ELSE LET m == (a + b) \div 2
         IN  LowerFrom(s, a, m) \o LowerFrom(s, m + 1, b)

\* Python str.lower().
Lower(s) == LowerFrom(s, 1, Len(s))

\* The characters the regex class \w matches (in lowercased ASCII text).
WordChars ==
    {"a", "b", "c", "d", "e", "f", "g", "h", "i", "j", "k", "l", "m",
     "n", "o", "p", "q", "r", "s", "t", "u", "v", "w", "x", "y", "z",
     "0", "1", "2", "3", "4", "5", "6", "7", "8", "9", "_"}

IsWordAt(t, i) == i >= 1 /\ i <= Len(t) /\ SubSeq(t, i, i) \in WordChars

\* The regex assertion \b just before position i of t (i in 1..Len(t)+1).
WordBoundary(t, i) == IsWordAt(t, i - 1) # IsWordAt(t, i)

\* No newline in t[a..b]: what `.` may match.
NoNewline(t, a, b) == \A j \in a..b : SubSeq(t, j, j) # "\n"

(***************************************************************************)
(* safety_service.py                                                       *)
(***************************************************************************)

\* One emergency pattern r"\b<lit>[\b]" or r"\b<lit><gap><tail>", where gap
\* is "" (nothing), ".?" or ".*" .
Pat(lit, endb) == [lit |-> lit, endb |-> endb, gap |-> "", tail |-> ""]
PatGap(lit, gap, tail) == [lit |-> lit, endb |-> FALSE, gap |-> gap, tail |-> tail]

emergency_patterns ==
    << Pat("suicid", FALSE), Pat("kill myself", FALSE), Pat("want to die", FALSE),
       Pat("end my life", FALSE), Pat("harm myself", FALSE),
       PatGap("self", ".?", "harm"),
       Pat("cardiac arrest", FALSE), Pat("heart attack", FALSE), Pat("heart stop", FALSE),
       Pat("chest pain", TRUE), Pat("chest tightness", FALSE), Pat("chest pressure", FALSE),
       Pat("heart racing", FALSE), Pat("irregular heartbeat", FALSE), Pat("palpitation", FALSE),
       Pat("cant breathe", TRUE), Pat("can't breathe", TRUE), Pat("cannot breathe", FALSE),
       Pat("difficulty breathing", FALSE), Pat("shortness of breath", FALSE), Pat("choking", FALSE),
       Pat("can't get air", FALSE), Pat("gasping", FALSE),
       Pat("stroke", TRUE), Pat("seizure", FALSE), Pat("convulsion", FALSE),
       Pat("slurred speech", FALSE), Pat("face droop", FALSE), Pat("arm weakness", FALSE),
       Pat("sudden confusion", FALSE), Pat("sudden numbness", FALSE),
       Pat("worst headache", FALSE), Pat("thunderclap headache", FALSE),
       Pat("loss of consciousness", FALSE), Pat("passed out", FALSE), Pat("fainted", FALSE),
       Pat("unresponsive", FALSE),
       Pat("severe bleeding", FALSE), Pat("uncontrollable bleeding", FALSE),
       Pat("head injury", FALSE), Pat("head trauma", FALSE),
       Pat("severe burn", FALSE), Pat("electrocution", FALSE),
       Pat("overdose", FALSE), Pat("poisoning", FALSE),
       PatGap("allergic reaction", ".*", "severe"),
       Pat("anaphyla", FALSE),
       PatGap("swelling", ".*", "throat"), PatGap("throat", ".*", "closing") >>

\* re.search(pattern, t) for one emergency pattern.
ReSearch(p, t) ==
    \E i \in 1..(Len(t) - Len(p.lit) + 1) :
        /\ SubSeq(t, i, i + Len(p.lit) - 1) = p.lit
        /\ WordBoundary(t, i)
        /\ LET e == i + Len(p.lit)      \* first position after the literal
               n == Len(p.tail)
           IN  CASE p.gap = ""   -> p.endb => WordBoundary(t, e)
                 [] p.gap = ".?" -> \/ SubSeq(t, e, e + n - 1) = p.tail
                                    \/ /\ e <= Len(t)
                                       /\ NoNewline(t, e, e)
                                       /\ SubSeq(t, e + 1, e + n) = p.tail
                 [] p.gap = ".*" -> \E j \in e..(Len(t) - n + 1) :
                                       /\ SubSeq(t, j, j + n - 1) = p.tail
                                       /\ NoNewline(t, e, j - 1)

EMERGENCY_RED_FLAGS == << "THIS IS AN EMERGENCY - Do not delay seeking help" >>

EMERGENCY_SEEK_CARE ==
    << "SEEK HELP NOW - Call 911/112 immediately",
       "Go to the nearest emergency room",
       "Do NOT drive yourself - have someone else drive or call ambulance" >>

EMERGENCY_DISCLAIMER ==
    "This system has detected potential emergency symptoms. This is NOT a diagnosis - emergency services can provide proper evaluation."

\* _create_emergency_response in which a breathing term outranks a cardiac
\* term (the respiratory test made before the cardiac one).
_create_emergency_response_breathing_first(symptoms) ==
    LET is_respiratory == AnyIn(<<"breathe", "breathing", "choking", "gasping", "air">>, symptoms)
        is_cardiac ==
            /\ AnyIn(<<"cardiac", "heart", "chest pain", "chest tight", "chest pressure">>, symptoms)
            /\ ~is_respiratory
        is_stroke == AnyIn(<<"stroke", "slurred", "face droop", "arm weak", "sudden numb">>, symptoms)
        is_mental_health == AnyIn(<<"suicid", "kill myself", "want to die", "harm myself">>, symptoms)
        summary ==
            IF is_cardiac THEN "CRITICAL: POTENTIAL CARDIAC EMERGENCY DETECTED"
            ELSE IF is_respiratory THEN "CRITICAL: BREATHING EMERGENCY DETECTED"
            ELSE IF is_stroke THEN "CRITICAL: POTENTIAL STROKE - TIME IS CRITICAL"
            ELSE IF is_mental_health THEN "CRISIS SUPPORT NEEDED - You are not alone"
            ELSE "CRITICAL: EMERGENCY SYMPTOMS DETECTED"
        immediate_actions ==
            IF is_cardiac THEN
                << "Call 911/112 IMMEDIATELY",
                   "If available, chew aspirin (unless allergic)",
                   "Sit or lie down in a comfortable position",
                   "Loosen any tight clothing",
                   "If you have prescribed nitroglycerin, take as directed",
                   "Stay calm and wait for emergency services" >>
            ELSE IF is_respiratory THEN
                << "Call 911/112 IMMEDIATELY",
                   "If choking, perform Heimlich maneuver or get help",
                   "Sit upright to ease breathing",
                   "Use rescue inhaler if you have asthma",
                   "Stay calm, panic worsens breathing difficulty" >>
            ELSE IF is_stroke THEN
                << "Call 911/112 IMMEDIATELY - Every minute counts!",
                   "Note the TIME symptoms started (critical for treatment)",
                   "F.A.S.T.: Face drooping, Arm weakness, Speech difficulty, Time to call 911",
                   "Do NOT give food/water (risk of choking)",
                   "Lay person on side if vomiting" >>
            ELSE IF is_mental_health THEN
                << "Call emergency services (911/112) if in immediate danger",
                   "National Suicide Prevention Lifeline: 988 (US)",
                   "iCall (India): 9152987821",
                   "Vandrevala Foundation (India): 1860-2662-345",
                   "Crisis Text Line: Text HOME to 741741",
                   "Stay on the line - someone cares about you" >>
            ELSE
                << "Call 911/112 IMMEDIATELY",
                   "Do not ignore these symptoms",
                   "Stay calm and await emergency services" >>
    IN  [summary |-> summary,
         severity |-> "critical",
         possible_causes |-> << >>,
         home_care |-> immediate_actions,
         prevention |-> << >>,
         red_flags |-> EMERGENCY_RED_FLAGS,
         when_to_seek_care |-> EMERGENCY_SEEK_CARE,
         disclaimer |-> EMERGENCY_DISCLAIMER]

\* SafetyService._create_emergency_response (the leading alarm emoji of the
\* summaries and of the first when_to_seek_care line is left out).
_create_emergency_response(symptoms) ==
    LET is_cardiac == AnyIn(<<"cardiac", "heart", "chest pain", "chest tight", "chest pressure">>, symptoms)
        is_respiratory == AnyIn(<<"breathe", "breathing", "choking", "gasping", "air">>, symptoms)
        is_stroke == AnyIn(<<"stroke", "slurred", "face droop", "arm weak", "sudden numb">>, symptoms)
        is_mental_health == AnyIn(<<"suicid", "kill myself", "want to die", "harm myself">>, symptoms)
        summary ==
            IF is_cardiac THEN "CRITICAL: POTENTIAL CARDIAC EMERGENCY DETECTED"
            ELSE IF is_respiratory THEN "CRITICAL: BREATHING EMERGENCY DETECTED"
            ELSE IF is_stroke THEN "CRITICAL: POTENTIAL STROKE - TIME IS CRITICAL"
            ELSE IF is_mental_health THEN "CRISIS SUPPORT NEEDED - You are not alone"
            ELSE "CRITICAL: EMERGENCY SYMPTOMS DETECTED"
        immediate_actions ==
            IF is_cardiac THEN
                << "Call 911/112 IMMEDIATELY",
                   "If available, chew aspirin (unless allergic)",
                   "Sit or lie down in a comfortable position",
                   "Loosen any tight clothing",
                   "If you have prescribed nitroglycerin, take as directed",
                   "Stay calm and wait for emergency services" >>
            ELSE IF is_respiratory THEN
                << "Call 911/112 IMMEDIATELY",
                   "If choking, perform Heimlich maneuver or get help",
                   "Sit upright to ease breathing",
                   "Use rescue inhaler if you have asthma",
                   "Stay calm, panic worsens breathing difficulty" >>
            ELSE IF is_stroke THEN
                << "Call 911/112 IMMEDIATELY - Every minute counts!",
                   "Note the TIME symptoms started (critical for treatment)",
                   "F.A.S.T.: Face drooping, Arm weakness, Speech difficulty, Time to call 911",
                   "Do NOT give food/water (risk of choking)",
                   "Lay person on side if vomiting" >>
            ELSE IF is_mental_health THEN
                << "Call emergency services (911/112) if in immediate danger",
                   "National Suicide Prevention Lifeline: 988 (US)",
                   "iCall (India): 9152987821",
                   "Vandrevala Foundation (India): 1860-2662-345",
                   "Crisis Text Line: Text HOME to 741741",
                   "Stay on the line - someone cares about you" >>
            ELSE
                << "Call 911/112 IMMEDIATELY",
                   "Do not ignore these symptoms",
                   "Stay calm and await emergency services" >>
    IN  [summary |-> summary,
         severity |-> "critical",
         possible_causes |-> << >>,
         home_care |-> immediate_actions,
         prevention |-> << >>,
         red_flags |-> EMERGENCY_RED_FLAGS,
         when_to_seek_care |-> EMERGENCY_SEEK_CARE,
         disclaimer |-> EMERGENCY_DISCLAIMER]

\* The Python value None (a record, so that it compares with records).
None == [none |-> TRUE]

\* SafetyService.check_safety: a TriageOutput-like record if unsafe, else None.
check_safety(text_input) ==
    LET text_lower == Lower(text_input)
    IN  IF \E n \in 1..Len(emergency_patterns) : ReSearch(emergency_patterns[n], text_lower)
        THEN _create_emergency_response(text_lower)
        ELSE None

(***************************************************************************)
(* vision_service.py                                                       *)
(***************************************************************************)

\* VisionService.analyze_image: the stub looks only at the parity of the
\* byte length (odd -> wound, even -> rash).  vision_confidence is in
\* hundredths.
analyze_image(image_len) ==
    LET is_wound == image_len % 2 # 0
    IN  IF is_wound
        THEN [body_part |-> "leg",
              observations |-> << "open wound", "bleeding", "jagged edges" >>,
              quality_flags |-> << >>,
              vision_confidence |-> [open_wound |-> 92, bleeding |-> 78]]
        ELSE [body_part |-> "forearm",
              observations |-> << "redness", "mild swelling", "papules" >>,
              quality_flags |-> << >>,
              vision_confidence |-> [redness |-> 88, swelling |-> 65]]

(***************************************************************************)
(* reasoning_service.py: question templates                                *)
(***************************************************************************)

Question(id, text, options, allow_custom) ==
    [id |-> id, text |-> text, options |-> options, allow_custom |-> allow_custom]

SYSTEMIC_QUESTIONS ==
    << Question("q_systemic_1", "How high is your fever and how long has it lasted?",
                << "Low grade (<38C), <2 days", "High grade (>38C), <2 days", "Any fever > 3 days" >>, TRUE),
       Question("q_systemic_2", "Are you experiencing severe dehydration (dry mouth, no urine)?",
                << "Yes", "No" >>, FALSE) >>

GI_QUESTIONS ==
    << Question("q_gi_1", "Do you have any nausea, vomiting, or diarrhea?",
                << "Yes, nausea only", "Vomiting", "Diarrhea", "None" >>, TRUE) >>

HEADACHE_QUESTIONS ==
    << Question("q_headache_1", "Is the headache throbbing, squeezing, or sharp?",
                << "Throbbing", "Squeezing (band-like)", "Sharp/Stabbing" >>, TRUE) >>

GENERAL_QUESTIONS ==
    << Question("q_general_1", "Can you describe your symptoms in more detail?",
                << "pain", "weakness", "discomfort" >>, TRUE) >>

WOUND_QUESTIONS ==
    << Question("q_wound_1", "Is the wound deep or showing signs of infection (pus, warmth)?",
                << "Superficial, clean", "Deep, bleeding controlled", "Signs of infection" >>, TRUE),
       Question("q_wound_2", "Is the bleeding uncontrollable?",
                << "Yes", "No - stopped with pressure" >>, FALSE) >>

SKIN_QUESTIONS ==
    << Question("q_skin_1", "Is the rash itchy or painful?",
                << "Itchy", "Painful", "Both", "Neither" >>, TRUE),
       Question("q_skin_2", "Is the rash spreading rapidly?",
                << "Yes", "No", "Stable" >>, FALSE) >>

MUSCULOSKELETAL_QUESTIONS ==
    << Question("q_musculo_1", "How did the pain start and how long have you had it?",
                << "Sudden injury/trauma", "Gradual onset, < 1 week", "Chronic, > 1 week" >>, TRUE),
       Question("q_musculo_2", "Is there any swelling, redness, or limited movement?",
                << "Yes, swelling", "Yes, redness/warmth", "Limited movement", "None of these" >>, TRUE) >>

CONFIRMATION_QUESTION ==
    Question("q_continue_1",
             "Do you want to continue (upload another image or describe symptoms) to improve accuracy?",
             << "Yes, upload another image", "Yes, add symptoms in text", "No, finalize now" >>, FALSE)

\* Python `x in lst` for a list (a sequence here).
InList(x, lst) == \E n \in 1..Len(lst) : lst[n] = x

\* session_data.get("observations", {}).get("observations", []): the context's
\* observations are {} (None here) when the session has none.
ObsList(context) ==
    IF context.observations = None THEN << >> ELSE context.observations.observations

\* An Optional[str] that is None (strings and records do not compare).
NoneStr == "<None>"

\* session_data.get(key, "").lower() if session_data.get(key) else "".
HintLower(h) == IF h = NoneStr \/ h = "" THEN "" ELSE Lower(h)

\* generate_question with the headache test made before the infection test.
generate_question_headache_first(session_data) ==
    LET input_mode == session_data.input_mode
        observations == ObsList(session_data)
        severity == HintLower(session_data.severity)
        duration == HintLower(session_data.duration)
        symptoms == Lower(session_data.symptoms)
        infection_kws == << "fever", "chills", "shivering", "hot" >>
        headache_kws == << "headache", "head pain", "migraine" >>
        gi_kws == << "uneasy", "stomach", "nausea", "indigestion", "bloating", "gas" >>
        vomit_kws == << "vomit", "throwing up", "puke" >>
        musculo_kws == << "pain", "ache", "sore", "hurt", "swelling", "stiff", "sprain", "strain",
                          "thumb", "finger", "hand", "wrist", "arm", "elbow", "shoulder",
                          "knee", "ankle", "foot", "toe", "leg", "hip", "back", "neck", "joint" >>
        has_infection == AnyIn(infection_kws, symptoms)
        has_headache == AnyIn(headache_kws, symptoms)
        has_gi == AnyIn(gi_kws, symptoms)
        has_vomit == AnyIn(vomit_kws, symptoms)
        has_musculo == AnyIn(musculo_kws, symptoms)
        is_long_duration == AnyIn(<< "2 day", "3 day", "4 day", "5 day", "week" >>, duration)
    IN  IF input_mode = "text" THEN
            IF has_headache THEN HEADACHE_QUESTIONS[1]
            ELSE IF has_infection THEN SYSTEMIC_QUESTIONS[1]
            ELSE IF has_vomit /\ is_long_duration THEN SYSTEMIC_QUESTIONS[1]
            ELSE IF has_gi \/ has_vomit THEN GI_QUESTIONS[1]
            ELSE IF has_musculo THEN MUSCULOSKELETAL_QUESTIONS[1]
            ELSE GENERAL_QUESTIONS[1]
        ELSE IF input_mode \in {"image", "mixed"}
                /\ (InList("open wound", observations) \/ InList("bleeding", observations))
            THEN WOUND_QUESTIONS[1]
        ELSE IF input_mode \in {"image", "mixed"}
                /\ (InList("redness", observations) \/ InList("rash", observations))
            THEN SKIN_QUESTIONS[1]
        ELSE IF input_mode = "mixed" /\ symptoms # "" /\ has_infection THEN SYSTEMIC_QUESTIONS[1]
        ELSE IF input_mode = "mixed" /\ symptoms # "" /\ has_headache THEN HEADACHE_QUESTIONS[1]
        ELSE IF input_mode = "mixed" /\ symptoms # "" /\ (has_gi \/ has_vomit) THEN GI_QUESTIONS[1]
        ELSE SYSTEMIC_QUESTIONS[1]

\* generate_question that asks the skin question for skin words in a text.
generate_question_skin_words(session_data) ==
    LET input_mode == session_data.input_mode
        observations == ObsList(session_data)
        severity == HintLower(session_data.severity)
        duration == HintLower(session_data.duration)
        symptoms == Lower(session_data.symptoms)
        infection_kws == << "fever", "chills", "shivering", "hot" >>
        headache_kws == << "headache", "head pain", "migraine" >>
        gi_kws == << "uneasy", "stomach", "nausea", "indigestion", "bloating", "gas" >>
        vomit_kws == << "vomit", "throwing up", "puke" >>
        musculo_kws == << "pain", "ache", "sore", "hurt", "swelling", "stiff", "sprain", "strain",
                          "thumb", "finger", "hand", "wrist", "arm", "elbow", "shoulder",
                          "knee", "ankle", "foot", "toe", "leg", "hip", "back", "neck", "joint" >>
        has_infection == AnyIn(infection_kws, symptoms)
        has_headache == AnyIn(headache_kws, symptoms)
        has_gi == AnyIn(gi_kws, symptoms)
        has_vomit == AnyIn(vomit_kws, symptoms)
        has_musculo == AnyIn(musculo_kws, symptoms)
        is_long_duration == AnyIn(<< "2 day", "3 day", "4 day", "5 day", "week" >>, duration)
    IN  IF input_mode = "text" THEN
            IF AnyIn(<< "rash", "itchy", "skin" >>, symptoms) THEN SKIN_QUESTIONS[1]
            ELSE IF has_infection THEN SYSTEMIC_QUESTIONS[1]
            ELSE IF has_vomit /\ is_long_duration THEN SYSTEMIC_QUESTIONS[1]
            ELSE IF has_headache THEN HEADACHE_QUESTIONS[1]
            ELSE IF has_gi \/ has_vomit THEN GI_QUESTIONS[1]
            ELSE IF has_musculo THEN MUSCULOSKELETAL_QUESTIONS[1]
            ELSE GENERAL_QUESTIONS[1]
        ELSE IF input_mode \in {"image", "mixed"}
                /\ (InList("open wound", observations) \/ InList("bleeding", observations))
            THEN WOUND_QUESTIONS[1]
        ELSE IF input_mode \in {"image", "mixed"}
                /\ (InList("redness", observations) \/ InList("rash", observations))
            THEN SKIN_QUESTIONS[1]
        ELSE IF input_mode = "mixed" /\ symptoms # "" /\ has_infection THEN SYSTEMIC_QUESTIONS[1]
        ELSE IF input_mode = "mixed" /\ symptoms # "" /\ has_headache THEN HEADACHE_QUESTIONS[1]
        ELSE IF input_mode = "mixed" /\ symptoms # "" /\ (has_gi \/ has_vomit) THEN GI_QUESTIONS[1]
        ELSE SYSTEMIC_QUESTIONS[1]

\* ReasoningService.generate_question.
generate_question(session_data) ==
    LET input_mode == session_data.input_mode
        observations == ObsList(session_data)
        severity == HintLower(session_data.severity)
        duration == HintLower(session_data.duration)
        symptoms == Lower(session_data.symptoms)
        infection_kws == << "fever", "chills", "shivering", "hot" >>
        headache_kws == << "headache", "head pain", "migraine" >>
        gi_kws == << "uneasy", "stomach", "nausea", "indigestion", "bloating", "gas" >>
        vomit_kws == << "vomit", "throwing up", "puke" >>
        musculo_kws == << "pain", "ache", "sore", "hurt", "swelling", "stiff", "sprain", "strain",
                          "thumb", "finger", "hand", "wrist", "arm", "elbow", "shoulder",
                          "knee", "ankle", "foot", "toe", "leg", "hip", "back", "neck", "joint" >>
        has_infection == AnyIn(infection_kws, symptoms)
        has_headache == AnyIn(headache_kws, symptoms)
        has_gi == AnyIn(gi_kws, symptoms)
        has_vomit == AnyIn(vomit_kws, symptoms)
        has_musculo == AnyIn(musculo_kws, symptoms)
        is_long_duration == AnyIn(<< "2 day", "3 day", "4 day", "5 day", "week" >>, duration)
    IN  IF input_mode = "text" THEN
            IF has_infection THEN SYSTEMIC_QUESTIONS[1]
            ELSE IF has_vomit /\ is_long_duration THEN SYSTEMIC_QUESTIONS[1]
            ELSE IF has_headache THEN HEADACHE_QUESTIONS[1]
            ELSE IF has_gi \/ has_vomit THEN GI_QUESTIONS[1]
            ELSE IF has_musculo THEN MUSCULOSKELETAL_QUESTIONS[1]
            ELSE GENERAL_QUESTIONS[1]
        ELSE IF input_mode \in {"image", "mixed"}
                /\ (InList("open wound", observations) \/ InList("bleeding", observations))
            THEN WOUND_QUESTIONS[1]
        ELSE IF input_mode \in {"image", "mixed"}
                /\ (InList("redness", observations) \/ InList("rash", observations))
            THEN SKIN_QUESTIONS[1]
        ELSE IF input_mode = "mixed" /\ symptoms # "" /\ has_infection THEN SYSTEMIC_QUESTIONS[1]
        ELSE IF input_mode = "mixed" /\ symptoms # "" /\ has_headache THEN HEADACHE_QUESTIONS[1]
        ELSE IF input_mode = "mixed" /\ symptoms # "" /\ (has_gi \/ has_vomit) THEN GI_QUESTIONS[1]
        ELSE SYSTEMIC_QUESTIONS[1]

(***************************************************************************)
(* reasoning_service.py: response templates (confidence in hundredths)     *)
(***************************************************************************)

Cause(name, confidence) == [name |-> name, confidence |-> confidence]

DISCLAIMER == "This is not a medical diagnosis. Consult a professional."

_get_systemic_response ==
    [summary |-> "Symptoms consistent with a viral illness or systemic infection.",
     severity |-> "medium",
     possible_causes |-> << Cause("Viral Influenza", 78), Cause("Common Cold", 65) >>,
     home_care |-> << "Rest and hydration", "Over-the-counter antipyretics" >>,
     prevention |-> << "Wash hands frequently" >>,
     red_flags |-> << "Stiff neck", "Confusion", "Difficulty breathing" >>,
     when_to_seek_care |-> << "If fever persists > 3 days", "If unable to keep fluids down" >>,
     disclaimer |-> DISCLAIMER]

\* _get_wound_response that rates an open wound as critical.
_get_wound_response_critical ==
    [summary |-> "Observation of an open wound.",
     severity |-> "critical",
     possible_causes |-> << Cause("Laceration", 85), Cause("Abrasion", 80) >>,
     home_care |-> << "Clean with water", "Apply antibiotic ointment", "Cover with sterile bandage" >>,
     prevention |-> << "Keep environment safe" >>,
     red_flags |-> << "Uncontrollable bleeding", "Signs of infection (pus, red streaks)" >>,
     when_to_seek_care |-> << "If wound is deep (needs stitches)", "If bleeding doesn't stop" >>,
     disclaimer |-> DISCLAIMER]

_get_wound_response ==
    [summary |-> "Observation of an open wound.",
     severity |-> "medium",
     possible_causes |-> << Cause("Laceration", 85), Cause("Abrasion", 80) >>,
     home_care |-> << "Clean with water", "Apply antibiotic ointment", "Cover with sterile bandage" >>,
     prevention |-> << "Keep environment safe" >>,
     red_flags |-> << "Uncontrollable bleeding", "Signs of infection (pus, red streaks)" >>,
     when_to_seek_care |-> << "If wound is deep (needs stitches)", "If bleeding doesn't stop" >>,
     disclaimer |-> DISCLAIMER]

_get_skin_response ==
    [summary |-> "Symptoms suggest a localized skin reaction.",
     severity |-> "low",
     possible_causes |-> << Cause("Contact Dermatitis", 75), Cause("Insect Bite", 60) >>,
     home_care |-> << "Keep clean and dry", "Apply cold compress" >>,
     prevention |-> << "Avoid potential allergens" >>,
     red_flags |-> << "Rapidly spreading redness", "High fever" >>,
     when_to_seek_care |-> << "If symptoms worsen after 24 hours" >>,
     disclaimer |-> DISCLAIMER]

\* The keys of the body_parts dict of _get_musculoskeletal_response, in
\* insertion order (every key maps to itself).
MUSCULO_BODY_PARTS ==
    << "thumb", "finger", "hand", "wrist", "arm", "elbow", "shoulder",
       "knee", "ankle", "foot", "toe", "leg", "hip", "back", "neck", "joint" >>

\* The first body part of the dict that occurs in the text, else the default.
RECURSIVE AffectedPart(_, _)
AffectedPart(symptoms, n) ==
    IF n > Len(MUSCULO_BODY_PARTS) THEN "the affected area"
    ELSE IF Contains(symptoms, MUSCULO_BODY_PARTS[n]) THEN MUSCULO_BODY_PARTS[n]
    ELSE AffectedPart(symptoms, n + 1)

_get_musculoskeletal_response(symptoms) ==
    [summary |-> "Symptoms suggest a musculoskeletal issue affecting "
                 \o AffectedPart(symptoms, 1) \o ".",
     severity |-> "low",
     possible_causes |-> << Cause("Strain or Overuse Injury", 75), Cause("Minor Sprain", 65),
                            Cause("Repetitive Stress Injury", 55), Cause("Joint Inflammation", 45) >>,
     home_care |-> << "Rest the affected area and avoid activities that worsen pain",
                      "Apply ice for 15-20 minutes several times a day",
                      "Use over-the-counter pain relievers (ibuprofen, acetaminophen)",
                      "Gentle stretching once pain subsides" >>,
     prevention |-> << "Take regular breaks during repetitive activities",
                       "Use proper ergonomics",
                       "Warm up before physical activities" >>,
     red_flags |-> << "Severe swelling or deformity",
                      "Inability to move the affected area",
                      "Numbness or tingling",
                      "Pain that worsens despite rest" >>,
     when_to_seek_care |-> << "If pain persists for more than a week",
                              "If swelling does not improve with ice and rest",
                              "If you cannot use the affected body part normally" >>,
     disclaimer |-> DISCLAIMER]

_get_headache_response ==
    [summary |-> "Symptoms suggest a tension or stress-related headache.",
     severity |-> "low",
     possible_causes |-> << Cause("Tension Headache", 80), Cause("Dehydration", 60),
                            Cause("Eye Strain", 50) >>,
     home_care |-> << "Rest in a quiet, dark room", "Stay hydrated",
                      "Over-the-counter pain relievers",
                      "Apply cold or warm compress to forehead" >>,
     prevention |-> << "Manage stress", "Get adequate sleep", "Limit screen time" >>,
     red_flags |-> << "Sudden severe headache", "Headache with fever and stiff neck",
                      "Vision changes" >>,
     when_to_seek_care |-> << "If headache is the worst of your life",
                              "If accompanied by confusion" >>,
     disclaimer |-> DISCLAIMER]

_get_gi_response ==
    [summary |-> "Symptoms suggest a gastrointestinal issue.",
     severity |-> "low",
     possible_causes |-> << Cause("Indigestion", 70), Cause("Gastritis", 55),
                            Cause("Food Intolerance", 50) >>,
     home_care |-> << "Eat bland foods", "Stay hydrated with clear fluids",
                      "Avoid spicy, fatty, or acidic foods",
                      "Rest and avoid strenuous activity" >>,
     prevention |-> << "Eat smaller meals", "Avoid trigger foods",
                       "Don't lie down right after eating" >>,
     red_flags |-> << "Severe abdominal pain", "Blood in vomit or stool", "High fever" >>,
     when_to_seek_care |-> << "If symptoms persist more than 2 days",
                              "If unable to keep fluids down" >>,
     disclaimer |-> DISCLAIMER]

\* The degree signs of the source red flag "High fever (>39\u00b0C/102\u00b0F)" are
\* left out of the string here; no decision of the program reads a red flag.
_get_respiratory_response ==
    [summary |-> "Symptoms suggest a respiratory issue such as a common cold or upper respiratory infection.",
     severity |-> "low",
     possible_causes |-> << Cause("Common Cold", 75), Cause("Upper Respiratory Infection", 70),
                            Cause("Allergies", 55), Cause("Bronchitis", 40) >>,
     home_care |-> << "Rest and get plenty of sleep",
                      "Stay hydrated with warm fluids (tea, soup)",
                      "Use honey for sore throat (if over 1 year old)",
                      "Use saline nasal spray for congestion",
                      "Take over-the-counter decongestants if needed" >>,
     prevention |-> << "Wash hands frequently", "Avoid close contact with sick people",
                       "Get adequate sleep" >>,
     red_flags |-> << "Difficulty breathing", "Chest pain", "High fever (>39C/102F)",
                      "Symptoms lasting >10 days" >>,
     when_to_seek_care |-> << "If breathing becomes difficult", "If cough produces blood",
                              "If fever persists >3 days" >>,
     disclaimer |-> DISCLAIMER]

_get_autonomic_response ==
    [summary |-> "Symptoms suggest an autonomic nervous system response, possibly related to stress, anxiety, blood sugar changes, or temperature regulation.",
     severity |-> "low",
     possible_causes |-> << Cause("Anxiety or Panic Response", 75),
                            Cause("Low Blood Sugar (Hypoglycemia)", 65),
                            Cause("Stress Response", 60),
                            Cause("Caffeine or Stimulant Effect", 45),
                            Cause("Cold Exposure", 40) >>,
     home_care |-> << "Eat something with sugar if you haven't eaten recently",
                      "Practice deep breathing exercises",
                      "Move to a comfortable temperature environment",
                      "Sit or lie down if feeling faint",
                      "Drink water and stay hydrated" >>,
     prevention |-> << "Eat regular meals to maintain blood sugar",
                       "Practice stress management techniques",
                       "Limit caffeine intake",
                       "Get adequate sleep" >>,
     red_flags |-> << "Chest pain or pressure", "Difficulty breathing",
                      "Confusion or altered consciousness",
                      "Symptoms not improving after eating" >>,
     when_to_seek_care |-> << "If symptoms are frequent or recurring",
                              "If accompanied by fainting or near-fainting",
                              "If you have diabetes and suspect low blood sugar" >>,
     disclaimer |-> DISCLAIMER]

\* Python s[:n].
Prefix(s, n) == SubSeq(s, 1, IF Len(s) < n THEN Len(s) ELSE n)

_get_general_response(symptoms) ==
    [summary |-> "General health concern noted. Based on your symptoms: "
                 \o Prefix(symptoms, 100) \o "...",
     severity |-> "low",
     possible_causes |-> << Cause("General Discomfort", 60), Cause("Minor Health Issue", 50) >>,
     home_care |-> << "Get adequate rest", "Stay hydrated", "Monitor symptoms for changes" >>,
     prevention |-> << "Maintain healthy lifestyle", "Regular exercise", "Balanced diet" >>,
     red_flags |-> << "Symptoms worsening rapidly", "New severe symptoms appearing" >>,
     when_to_seek_care |-> << "If symptoms persist or worsen", "If you develop new concerns" >>,
     disclaimer |-> DISCLAIMER]

\* analyze_symptoms with the GI test made before the infection test.
analyze_symptoms_gi_first(session_data) ==
    LET input_mode == session_data.input_mode
        observations == ObsList(session_data)
        symptoms == Lower(session_data.symptoms)
        headache_kws == << "headache", "head pain", "migraine", "head ache" >>
        gi_kws == << "stomach", "nausea", "vomit", "diarrhea", "bloating", "stomach pain",
                     "abdominal", "belly", "gastric", "indigestion", "acid reflux", "heartburn" >>
        infection_kws == << "fever", "chills", "cold", "flu", "temperature" >>
        respiratory_kws == << "cough", "breathing", "breath", "chest pain", "wheezing", "congestion",
                              "runny nose", "sore throat", "throat pain" >>
        skin_kws == << "rash", "itchy", "itching", "hives", "skin", "bump", "acne", "pimple" >>
        autonomic_kws == << "sweating", "sweat", "shivering", "shiver", "trembling", "tremble",
                            "shaking", "clammy", "cold sweat" >>
        body_parts == << "thumb", "finger", "hand", "wrist", "arm", "elbow", "shoulder",
                         "knee", "ankle", "foot", "toe", "leg", "hip", "back", "neck",
                         "joint", "muscle", "spine" >>
        musculo_indicators == << "sprain", "strain", "swelling", "stiff", "ache", "sore", "injury" >>
        has_body_part == AnyIn(body_parts, symptoms)
        has_musculo_indicator == AnyIn(musculo_indicators, symptoms)
        no_fever_phrases == << "no fever", "don't have a fever", "don't have fever",
                               "not have fever", "no temperature", "haven't got fever",
                               "i don't have a fever", "i dont have fever" >>
        has_no_fever == AnyIn(no_fever_phrases, symptoms)
        has_autonomic == AnyIn(autonomic_kws, symptoms)
        has_fever_kw == AnyIn(infection_kws, symptoms)
    IN  IF input_mode = "text" THEN
            IF has_autonomic /\ has_no_fever THEN _get_autonomic_response
            ELSE IF has_autonomic /\ ~has_fever_kw THEN _get_autonomic_response
            ELSE IF AnyIn(headache_kws, symptoms) THEN _get_headache_response
            ELSE IF AnyIn(gi_kws, symptoms) THEN _get_gi_response
            ELSE IF AnyIn(infection_kws, symptoms) /\ ~has_no_fever THEN _get_systemic_response
            ELSE IF AnyIn(respiratory_kws, symptoms) THEN _get_respiratory_response
            ELSE IF AnyIn(skin_kws, symptoms) THEN _get_skin_response
            ELSE IF has_body_part \/ has_musculo_indicator
                THEN _get_musculoskeletal_response(symptoms)
            ELSE _get_general_response(symptoms)
        ELSE IF InList("open wound", observations) \/ InList("bleeding", observations)
            THEN _get_wound_response
        ELSE IF InList("redness", observations) \/ InList("rash", observations)
            THEN _get_skin_response
        ELSE _get_systemic_response

\* analyze_symptoms with the infection rule tested before the headache rule.
analyze_symptoms_fever_first(session_data) ==
    LET input_mode == session_data.input_mode
        observations == ObsList(session_data)
        symptoms == Lower(session_data.symptoms)
        headache_kws == << "headache", "head pain", "migraine", "head ache" >>
        gi_kws == << "stomach", "nausea", "vomit", "diarrhea", "bloating", "stomach pain",
                     "abdominal", "belly", "gastric", "indigestion", "acid reflux", "heartburn" >>
        infection_kws == << "fever", "chills", "cold", "flu", "temperature" >>
        respiratory_kws == << "cough", "breathing", "breath", "chest pain", "wheezing", "congestion",
                              "runny nose", "sore throat", "throat pain" >>
        skin_kws == << "rash", "itchy", "itching", "hives", "skin", "bump", "acne", "pimple" >>
        autonomic_kws == << "sweating", "sweat", "shivering", "shiver", "trembling", "tremble",
                            "shaking", "clammy", "cold sweat" >>
        body_parts == << "thumb", "finger", "hand", "wrist", "arm", "elbow", "shoulder",
                         "knee", "ankle", "foot", "toe", "leg", "hip", "back", "neck",
                         "joint", "muscle", "spine" >>
        musculo_indicators == << "sprain", "strain", "swelling", "stiff", "ache", "sore", "injury" >>
        has_body_part == AnyIn(body_parts, symptoms)
        has_musculo_indicator == AnyIn(musculo_indicators, symptoms)
        no_fever_phrases == << "no fever", "don't have a fever", "don't have fever",
                               "not have fever", "no temperature", "haven't got fever",
                               "i don't have a fever", "i dont have fever" >>
        has_no_fever == AnyIn(no_fever_phrases, symptoms)
        has_autonomic == AnyIn(autonomic_kws, symptoms)
        has_fever_kw == AnyIn(infection_kws, symptoms)
    IN  IF input_mode = "text" THEN
            IF has_autonomic /\ has_no_fever THEN _get_autonomic_response
            ELSE IF has_autonomic /\ ~has_fever_kw THEN _get_autonomic_response
            ELSE IF AnyIn(infection_kws, symptoms) /\ ~has_no_fever THEN _get_systemic_response
            ELSE IF AnyIn(headache_kws, symptoms) THEN _get_headache_response
            ELSE IF AnyIn(respiratory_kws, symptoms) THEN _get_respiratory_response
            ELSE IF AnyIn(gi_kws, symptoms) THEN _get_gi_response
            ELSE IF AnyIn(skin_kws, symptoms) THEN _get_skin_response
            ELSE IF has_body_part \/ has_musculo_indicator
                THEN _get_musculoskeletal_response(symptoms)
            ELSE _get_general_response(symptoms)
        ELSE IF InList("open wound", observations) \/ InList("bleeding", observations)
            THEN _get_wound_response
        ELSE IF InList("redness", observations) \/ InList("rash", observations)
            THEN _get_skin_response
        ELSE _get_systemic_response

\* ReasoningService.analyze_symptoms.
analyze_symptoms(session_data) ==
    LET input_mode == session_data.input_mode
        observations == ObsList(session_data)
        symptoms == Lower(session_data.symptoms)
        headache_kws == << "headache", "head pain", "migraine", "head ache" >>
        gi_kws == << "stomach", "nausea", "vomit", "diarrhea", "bloating", "stomach pain",
                     "abdominal", "belly", "gastric", "indigestion", "acid reflux", "heartburn" >>
        infection_kws == << "fever", "chills", "cold", "flu", "temperature" >>
        respiratory_kws == << "cough", "breathing", "breath", "chest pain", "wheezing", "congestion",
                              "runny nose", "sore throat", "throat pain" >>
        skin_kws == << "rash", "itchy", "itching", "hives", "skin", "bump", "acne", "pimple" >>
        autonomic_kws == << "sweating", "sweat", "shivering", "shiver", "trembling", "tremble",
                            "shaking", "clammy", "cold sweat" >>
        body_parts == << "thumb", "finger", "hand", "wrist", "arm", "elbow", "shoulder",
                         "knee", "ankle", "foot", "toe", "leg", "hip", "back", "neck",
                         "joint", "muscle", "spine" >>
        musculo_indicators == << "sprain", "strain", "swelling", "stiff", "ache", "sore", "injury" >>
        has_body_part == AnyIn(body_parts, symptoms)
        has_musculo_indicator == AnyIn(musculo_indicators, symptoms)
        no_fever_phrases == << "no fever", "don't have a fever", "don't have fever",
                               "not have fever", "no temperature", "haven't got fever",
                               "i don't have a fever", "i dont have fever" >>
        has_no_fever == AnyIn(no_fever_phrases, symptoms)
        has_autonomic == AnyIn(autonomic_kws, symptoms)
        has_fever_kw == AnyIn(infection_kws, symptoms)
    IN  IF input_mode = "text" THEN
            IF has_autonomic /\ has_no_fever THEN _get_autonomic_response
            ELSE IF has_autonomic /\ ~has_fever_kw THEN _get_autonomic_response
            ELSE IF AnyIn(headache_kws, symptoms) THEN _get_headache_response
            ELSE IF AnyIn(infection_kws, symptoms) /\ ~has_no_fever THEN _get_systemic_response
            ELSE IF AnyIn(respiratory_kws, symptoms) THEN _get_respiratory_response
            ELSE IF AnyIn(gi_kws, symptoms) THEN _get_gi_response
            ELSE IF AnyIn(skin_kws, symptoms) THEN _get_skin_response
            ELSE IF has_body_part \/ has_musculo_indicator
                THEN _get_musculoskeletal_response(symptoms)
            ELSE _get_general_response(symptoms)
        ELSE IF InList("open wound", observations) \/ InList("bleeding", observations)
            THEN _get_wound_response
        ELSE IF InList("redness", observations) \/ InList("rash", observations)
            THEN _get_skin_response
        ELSE _get_systemic_response

(***************************************************************************)
(* Bounds and inputs                                                       *)
(***************************************************************************)

\* Rows the tables may hold: sessions, user messages, observations.
MaxSessions == 2
MaxMessages == 2
MaxObservations == 1

\* Session ids the server generates (uuid4, unique): 1..MaxSessions, handed
\* out in order.  UNKNOWN_ID is an id a client sends that no session has
\* (the server never generates it).
UNKNOWN_ID == MaxSessions + 1
\* The session_id of a request that carries none (Optional[str] = None).
NO_SESSION_ID == -1
SessionIds == 1..MaxSessions
Ids == {UNKNOWN_ID} \cup SessionIds

\* Request payloads.
Symptoms ==
    { "severe chest pain and I want to die",
      "I have a high fever and headache",
      "I feel uneasy in my stomach" }
Durations == { NoneStr, "5 days" }
Severities == { NoneStr }
Answers ==
    { "Yes, upload another image",
      "Yes, add symptoms in text",
      "No, finalize now",
      "It's throbbing",
      "I cannot breathe" }
SessionTexts == { "It also hurts and I want to die" }
\* Byte lengths of the processed upload (b"1234", b"12345").
ImageLens == { 4, 5 }

(***************************************************************************)
(* State: the tables of db/models.py, the request being served and the     *)
(* response returned for it                                                *)
(***************************************************************************)

VARIABLES
    triage_sessions,      \* id -> row [id, status, language], or None
    triage_messages,      \* session_id -> rows [sender, content], oldest first
    triage_observations,  \* session_id -> rows [source, observation_data]
    triage_outputs,       \* session_id -> structured_data of the output row, or None
    request,              \* the last request
    response              \* the response to it

vars == << triage_sessions, triage_messages, triage_observations, triage_outputs,
           request, response >>

\* The database as one value, as the methods below see it through self.db.
DB == [sessions |-> triage_sessions, messages |-> triage_messages,
       observations |-> triage_observations, outputs |-> triage_outputs]

(***************************************************************************)
(* session_service.py                                                      *)
(***************************************************************************)

\* The id of the next session row (uuid4: an id no row has yet).
NewSessionId(db) == Cardinality({i \in SessionIds : db.sessions[i] # None}) + 1

\* SessionService.create_session: [db, session].
create_session(db, language) ==
    LET id == NewSessionId(db)
        row == [id |-> id, status |-> "collecting", language |-> language]
    IN  [db |-> [db EXCEPT !.sessions[id] = row], session_id |-> id]

\* The rows of the message table, whatever their session, by session id.
RECURSIVE MessagesOfAll(_, _)
MessagesOfAll(db, i) ==
    IF i \notin Ids THEN << >>
    ELSE db.messages[i] \o MessagesOfAll(db, i + 1)

\* get_session whose messages relationship lacks the session_id filter: the
\* row comes with the messages of every session.
get_session_all_messages(db, session_id) ==
    IF db.sessions[session_id] = None THEN None
    ELSE [id |-> session_id,
          status |-> db.sessions[session_id].status,
          language |-> db.sessions[session_id].language,
          messages |-> MessagesOfAll(db, 1),
          observations |-> db.observations[session_id],
          output |-> db.outputs[session_id]]

\* SessionService.get_session: the row with its relationships, or None.
get_session(db, session_id) ==
    IF db.sessions[session_id] = None THEN None
    ELSE [id |-> session_id,
          status |-> db.sessions[session_id].status,
          language |-> db.sessions[session_id].language,
          messages |-> db.messages[session_id],
          observations |-> db.observations[session_id],
          output |-> db.outputs[session_id]]

\* SessionService.add_message: inserts and commits; the foreign key is not
\* checked (SQLite without PRAGMA foreign_keys).
add_message(db, session_id, sender, content) ==
    [db EXCEPT !.messages[session_id] =
        Append(@, [sender |-> sender, content |-> content])]

\* SessionService.add_observation.
add_observation(db, session_id, source, data) ==
    [db EXCEPT !.observations[session_id] =
        Append(@, [source |-> source, observation_data |-> data])]

(***************************************************************************)
(* triage_orchestrator.py                                                  *)
(***************************************************************************)

TriageResponse(session_id, status, next_question, final_output) ==
    [session_id |-> session_id, status |-> status,
     next_question |-> next_question, final_output |-> final_output]

\* combined_text += f"\n{msg.content}" for every user message, oldest first.
RECURSIVE UserText(_, _)
UserText(messages, n) ==
    IF n > Len(messages) THEN ""
    ELSE (IF messages[n].sender = "user" THEN "\n" \o messages[n].content ELSE "")
         \o UserText(messages, n + 1)

\* _build_context with question_count counting every message, not only the
\* AI-authored ones.
_build_context_counts_all(session, current_input, input_mode, severity, duration) ==
    [symptoms |-> current_input \o UserText(session.messages, 1),
     observations |->
        IF Len(session.observations) > 0
        THEN session.observations[Len(session.observations)].observation_data
        ELSE None,
     question_count |-> Len(session.messages),
     input_mode |-> input_mode,
     severity |-> severity,
     duration |-> duration]

\* The content of every message, whoever sent it, oldest first.
RECURSIVE AllText(_, _)
AllText(messages, n) ==
    IF n > Len(messages) THEN ""
    ELSE "\n" \o messages[n].content \o AllText(messages, n + 1)

\* _build_context without the `if msg.sender == "user"` filter: the AI's
\* questions are part of the combined text.
_build_context_all_senders(session, current_input, input_mode, severity, duration) ==
    [symptoms |-> current_input \o AllText(session.messages, 1),
     observations |->
        IF Len(session.observations) > 0
        THEN session.observations[Len(session.observations)].observation_data
        ELSE None,
     question_count |->
        Cardinality({n \in 1..Len(session.messages) : session.messages[n].sender = "ai"}),
     input_mode |-> input_mode,
     severity |-> severity,
     duration |-> duration]

\* _build_context that takes the first observation of the session
\* (session.observations[0]) instead of the latest.
_build_context_first_observation(session, current_input, input_mode, severity, duration) ==
    [symptoms |-> current_input \o UserText(session.messages, 1),
     observations |->
        IF Len(session.observations) > 0
        THEN session.observations[1].observation_data
        ELSE None,
     question_count |->
        Cardinality({n \in 1..Len(session.messages) : session.messages[n].sender = "ai"}),
     input_mode |-> input_mode,
     severity |-> severity,
     duration |-> duration]

\* TriageOrchestrator._build_context.
_build_context(session, current_input, input_mode, severity, duration) ==
    [symptoms |-> current_input \o UserText(session.messages, 1),
     observations |->
        IF Len(session.observations) > 0
        THEN session.observations[Len(session.observations)].observation_data
        ELSE None,
     question_count |->
        Cardinality({n \in 1..Len(session.messages) : session.messages[n].sender = "ai"}),
     input_mode |-> input_mode,
     severity |-> severity,
     duration |-> duration]

\* _decide_next_step with the safety check moved behind the wound and the
\* question branches.
_decide_next_step_safety_last(db, session_id, context) ==
    LET unsafe == check_safety(context.symptoms)
        obs == ObsList(context)
    IN  IF InList("open wound", obs) THEN
            [db |-> db,
             ret |-> TriageResponse(session_id, "completed", None, analyze_symptoms(context))]
        ELSE IF context.observations = None /\ context.question_count = 0 THEN
            LET question == generate_question(context)
            IN  [db |-> add_message(db, session_id, "ai", question.text),
                 ret |-> TriageResponse(session_id, "needs_more_info", question, None)]
        ELSE IF unsafe # None THEN
            [db |-> db, ret |-> TriageResponse(session_id, "completed", None, unsafe)]
        ELSE
            LET final == IF context.observations = None
                         THEN [context EXCEPT !.input_mode = "text"]
                         ELSE context
            IN  [db |-> db,
                 ret |-> TriageResponse(session_id, "completed", None, analyze_symptoms(final))]

\* _decide_next_step that asks while fewer than two questions were asked
\* (question_count <= 1 instead of question_count == 0).
_decide_next_step_asks_twice(db, session_id, context) ==
    LET unsafe == check_safety(context.symptoms)
        obs == ObsList(context)
    IN  IF unsafe # None THEN
            [db |-> db, ret |-> TriageResponse(session_id, "completed", None, unsafe)]
        ELSE IF InList("open wound", obs) THEN
            [db |-> db,
             ret |-> TriageResponse(session_id, "completed", None, analyze_symptoms(context))]
        ELSE IF context.observations = None /\ context.question_count <= 1 THEN
            LET question == generate_question(context)
            IN  [db |-> add_message(db, session_id, "ai", question.text),
                 ret |-> TriageResponse(session_id, "needs_more_info", question, None)]
        ELSE
            LET final == IF context.observations = None
                         THEN [context EXCEPT !.input_mode = "text"]
                         ELSE context
            IN  [db |-> db,
                 ret |-> TriageResponse(session_id, "completed", None, analyze_symptoms(final))]

\* TriageOrchestrator._decide_next_step: [db, ret].
_decide_next_step(db, session_id, context) ==
    LET unsafe == check_safety(context.symptoms)
        obs == ObsList(context)
    IN  IF unsafe # None THEN
            [db |-> db, ret |-> TriageResponse(session_id, "completed", None, unsafe)]
        ELSE IF InList("open wound", obs) THEN
            [db |-> db,
             ret |-> TriageResponse(session_id, "completed", None, analyze_symptoms(context))]
        ELSE IF context.observations = None /\ context.question_count = 0 THEN
            LET question == generate_question(context)
            IN  [db |-> add_message(db, session_id, "ai", question.text),
                 ret |-> TriageResponse(session_id, "needs_more_info", question, None)]
        ELSE
            LET final == IF context.observations = None
                         THEN [context EXCEPT !.input_mode = "text"]
                         ELSE context
            IN  [db |-> db,
                 ret |-> TriageResponse(session_id, "completed", None, analyze_symptoms(final))]

\* An exception leaving a method instead of a return value.
Raise(exc) == [raised |-> exc]
Raised(ret) == "raised" \in DOMAIN ret

\* TriageOrchestrator.process_text_triage: [db, ret].
process_text_triage(db, session_id, symptoms, severity, duration) ==
    LET db1 == add_message(db, session_id, "user", symptoms)
        session == get_session(db1, session_id)
    IN  IF session = None THEN
            [db |-> db1, ret |-> Raise("ValueError: Session not found")]
        ELSE
            _decide_next_step(db1, session_id,
                _build_context(session, symptoms, "text", severity, duration))

\* process_image_triage that runs the decision step on the image context
\* instead of returning the confirmation question.
process_image_triage_decides(db, session_id, image_len) ==
    LET created == IF session_id = NO_SESSION_ID THEN create_session(db, "en")
                   ELSE [db |-> db, session_id |-> session_id]
        sid == created.session_id
        vision_result == analyze_image(image_len)
        db1 == add_observation(created.db, sid, "vision", vision_result)
        session == get_session(db1, sid)
    IN  IF session = None THEN
            [db |-> db1, ret |-> Raise("AttributeError: 'NoneType' object has no attribute 'messages'")]
        ELSE
            _decide_next_step(db1, sid, _build_context(session, "", "image", NoneStr, NoneStr))

\* process_image_triage that creates a session whether or not the request
\* names one.
process_image_triage_always_creates(db, session_id, image_len) ==
    LET created == create_session(db, "en")
        sid == created.session_id
        vision_result == analyze_image(image_len)
        db1 == add_observation(created.db, sid, "vision", vision_result)
    IN  [db |-> db1,
         ret |-> TriageResponse(sid, "needs_more_info", CONFIRMATION_QUESTION, None)]

\* TriageOrchestrator.process_image_triage: [db, ret].
process_image_triage(db, session_id, image_len) ==
    LET created == IF session_id = NO_SESSION_ID THEN create_session(db, "en")
                   ELSE [db |-> db, session_id |-> session_id]
        sid == created.session_id
        vision_result == analyze_image(image_len)
        db1 == add_observation(created.db, sid, "vision", vision_result)
        session == get_session(db1, sid)
    IN  IF session = None THEN
            \* _build_context reads session.messages of None
            [db |-> db1, ret |-> Raise("AttributeError: 'NoneType' object has no attribute 'messages'")]
        ELSE
            [db |-> db1,
             ret |-> TriageResponse(sid, "needs_more_info", CONFIRMATION_QUESTION, None)]

\* process_answer with the "finalize"/"no" test made before the two
\* continue tests.
process_answer_finalize_first(db, session_id, answer) ==
    LET db1 == add_message(db, session_id, "user", answer)
        session == get_session(db1, session_id)
    IN  IF session = None THEN
            [db |-> db1, ret |-> Raise("AttributeError: 'NoneType' object has no attribute 'observations'")]
        ELSE
            LET has_observations == Len(session.observations) > 0
                input_mode == IF has_observations THEN "mixed" ELSE "text"
                context == _build_context(session, "", input_mode, NoneStr, NoneStr)
                ans_lower == Lower(answer)
            IN  IF Contains(ans_lower, "finalize") \/ Contains(ans_lower, "no") THEN
                    [db |-> db1,
                     ret |-> TriageResponse(session_id, "completed", None, analyze_symptoms(context))]
                ELSE IF Contains(ans_lower, "upload another image") THEN
                    [db |-> db1,
                     ret |-> TriageResponse(session_id, "needs_more_info",
                                Question("q_upload_prompt", "Please upload the next image.", << >>, FALSE),
                                None)]
                ELSE IF Contains(ans_lower, "add symptoms") THEN
                    [db |-> db1,
                     ret |-> TriageResponse(session_id, "needs_more_info", GENERAL_QUESTIONS[1], None)]
                ELSE
                    _decide_next_step(db1, session_id, context)

\* process_answer whose "add symptoms" branch asks the confirmation question
\* again instead of the open-ended general question.
process_answer_confirms_again(db, session_id, answer) ==
    LET db1 == add_message(db, session_id, "user", answer)
        session == get_session(db1, session_id)
    IN  IF session = None THEN
            [db |-> db1, ret |-> Raise("AttributeError: 'NoneType' object has no attribute 'observations'")]
        ELSE
            LET has_observations == Len(session.observations) > 0
                input_mode == IF has_observations THEN "mixed" ELSE "text"
                context == _build_context(session, "", input_mode, NoneStr, NoneStr)
                ans_lower == Lower(answer)
            IN  IF Contains(ans_lower, "upload another image") THEN
                    [db |-> db1,
                     ret |-> TriageResponse(session_id, "needs_more_info",
                                Question("q_upload_prompt", "Please upload the next image.", << >>, FALSE),
                                None)]
                ELSE IF Contains(ans_lower, "add symptoms") THEN
                    [db |-> db1,
                     ret |-> TriageResponse(session_id, "needs_more_info", CONFIRMATION_QUESTION, None)]
                ELSE IF Contains(ans_lower, "finalize") \/ Contains(ans_lower, "no") THEN
                    [db |-> db1,
                     ret |-> TriageResponse(session_id, "completed", None, analyze_symptoms(context))]
                ELSE
                    _decide_next_step(db1, session_id, context)

\* TriageOrchestrator.process_answer: [db, ret].
process_answer(db, session_id, answer) ==
    LET db1 == add_message(db, session_id, "user", answer)
        session == get_session(db1, session_id)
    IN  IF session = None THEN
            \* session.observations of None
            [db |-> db1, ret |-> Raise("AttributeError: 'NoneType' object has no attribute 'observations'")]
        ELSE
            LET has_observations == Len(session.observations) > 0
                input_mode == IF has_observations THEN "mixed" ELSE "text"
                context == _build_context(session, "", input_mode, NoneStr, NoneStr)
                ans_lower == Lower(answer)
            IN  IF Contains(ans_lower, "upload another image") THEN
                    [db |-> db1,
                     ret |-> TriageResponse(session_id, "needs_more_info",
                                Question("q_upload_prompt", "Please upload the next image.", << >>, FALSE),
                                None)]
                ELSE IF Contains(ans_lower, "add symptoms") THEN
                    [db |-> db1,
                     ret |-> TriageResponse(session_id, "needs_more_info", GENERAL_QUESTIONS[1], None)]
                ELSE IF Contains(ans_lower, "finalize") \/ Contains(ans_lower, "no") THEN
                    [db |-> db1,
                     ret |-> TriageResponse(session_id, "completed", None, analyze_symptoms(context))]
                ELSE
                    _decide_next_step(db1, session_id, context)

\* process_session_text that reports completed while returning the
\* confirmation question.
process_session_text_completed(db, session_id, symptoms) ==
    [db |-> add_message(db, session_id, "user", symptoms),
     ret |-> TriageResponse(session_id, "completed", CONFIRMATION_QUESTION, None)]

\* process_session_text that records the confirmation question it returns
\* as an AI message.
process_session_text_records_question(db, session_id, symptoms) ==
    [db |-> add_message(add_message(db, session_id, "user", symptoms),
                        session_id, "ai", CONFIRMATION_QUESTION.text),
     ret |-> TriageResponse(session_id, "needs_more_info", CONFIRMATION_QUESTION, None)]

\* TriageOrchestrator.process_session_text: [db, ret].
process_session_text(db, session_id, symptoms) ==
    [db |-> add_message(db, session_id, "user", symptoms),
     ret |-> TriageResponse(session_id, "needs_more_info", CONFIRMATION_QUESTION, None)]

(***************************************************************************)
(* api/api_v1/endpoints/triage.py                                          *)
(***************************************************************************)

\* What the client receives: a 200 with the body, the HTTPException raised by
\* the handler, or the 500 the framework makes of any other exception.
Ok(body) == [status_code |-> 200, body |-> body]
HTTPException(status_code, detail) == [status_code |-> status_code, detail |-> detail]
Reply(ret) ==
    IF Raised(ret) THEN [status_code |-> 500, detail |-> "Internal Server Error", exc |-> ret.raised]
    ELSE Ok(ret)

\* Commit the database a method left behind.
Commit(db) ==
    /\ triage_sessions' = db.sessions
    /\ triage_messages' = db.messages
    /\ triage_observations' = db.observations
    /\ triage_outputs' = db.outputs

\* Sum of f over ids.
RECURSIVE SumOver(_, _)
SumOver(f, ids) ==
    IF ids = {} THEN 0
    ELSE LET i == CHOOSE j \in ids : TRUE
         IN  f[i] + SumOver(f, ids \ {i})

\* Rows of the message table sent by the user, and rows of the observation
\* table.
UserMessages ==
    SumOver([i \in Ids |-> Cardinality({n \in 1..Len(triage_messages[i]) :
                                            triage_messages[i][n].sender = "user"})], Ids)
Observations == SumOver([i \in Ids |-> Len(triage_observations[i])], Ids)

\* POST /text
triage_text(symptoms, severity, duration) ==
    /\ NewSessionId(DB) <= MaxSessions
    /\ UserMessages < MaxMessages
    /\ LET created == create_session(DB, "en")
           r == process_text_triage(created.db, created.session_id, symptoms, severity, duration)
       IN  /\ Commit(r.db)
           /\ request' = [op |-> "triage_text", session_id |-> NO_SESSION_ID, symptoms |-> symptoms,
                          severity |-> severity, duration |-> duration]
           /\ response' = Reply(r.ret)

\* POST /image (the upload has passed the content-type and size checks;
\* image_len is the length of the processed bytes)
triage_image(session_id, image_len) ==
    /\ session_id = NO_SESSION_ID => NewSessionId(DB) <= MaxSessions
    /\ Observations < MaxObservations
    /\ LET r == process_image_triage(DB, session_id, image_len)
       IN  /\ Commit(r.db)
           /\ request' = [op |-> "triage_image", session_id |-> session_id, image_len |-> image_len]
           /\ response' = Reply(r.ret)

\* POST /session/{session_id}/answer
triage_answer(session_id, answer) ==
    /\ UserMessages < MaxMessages
    /\ request' = [op |-> "triage_answer", session_id |-> session_id, answer |-> answer]
    /\ IF get_session(DB, session_id) = None THEN
            /\ response' = HTTPException(404, "Session not found")
            /\ UNCHANGED << triage_sessions, triage_messages, triage_observations, triage_outputs >>
       ELSE LET r == process_answer(DB, session_id, answer)
            IN  /\ Commit(r.db)
                /\ response' = Reply(r.ret)

\* The SessionResponse schema: id, status, language, messages.
SessionResponse(session) ==
    [id |-> session.id, status |-> session.status, language |-> session.language,
     messages |-> session.messages]

\* GET /session/{session_id}
get_session_endpoint(session_id) ==
    /\ request' = [op |-> "get_session", session_id |-> session_id]
    /\ response' = IF get_session(DB, session_id) = None
                   THEN HTTPException(404, "Session not found")
                   ELSE Ok(SessionResponse(get_session(DB, session_id)))
    /\ UNCHANGED << triage_sessions, triage_messages, triage_observations, triage_outputs >>

\* POST /session/{session_id}/text
triage_session_text(session_id, symptoms) ==
    /\ UserMessages < MaxMessages
    /\ request' = [op |-> "triage_session_text", session_id |-> session_id, symptoms |-> symptoms]
    /\ IF get_session(DB, session_id) = None THEN
            /\ response' = HTTPException(404, "Session not found")
            /\ UNCHANGED << triage_sessions, triage_messages, triage_observations, triage_outputs >>
       ELSE LET r == process_session_text(DB, session_id, symptoms)
            IN  /\ Commit(r.db)
                /\ response' = Reply(r.ret)

\* DELETE /session/{session_id}: TriageOrchestrator defines no delete_session,
\* so `await orchestrator.delete_session(session_id)` raises AttributeError
\* before anything is deleted.
delete_session(session_id) ==
    /\ request' = [op |-> "delete_session", session_id |-> session_id]
    /\ response' = IF get_session(DB, session_id) = None
                   THEN HTTPException(404, "Session not found")
                   ELSE Reply(Raise("AttributeError: 'TriageOrchestrator' object has no attribute 'delete_session'"))
    /\ UNCHANGED << triage_sessions, triage_messages, triage_observations, triage_outputs >>

(***************************************************************************)
(* Specification                                                           *)
(***************************************************************************)

\* An empty database and no request served yet.
Init ==
    /\ triage_sessions = [i \in Ids |-> None]
    /\ triage_messages = [i \in Ids |-> << >>]
    /\ triage_observations = [i \in Ids |-> << >>]
    /\ triage_outputs = [i \in Ids |-> None]
    /\ request = None
    /\ response = None

\* The session ids a client can send: those it was given, and an unknown one.
KnownIds == {i \in Ids : i = UNKNOWN_ID \/ triage_sessions[i] # None}

Next ==
    \/ \E s \in Symptoms, sev \in Severities, d \in Durations : triage_text(s, sev, d)
    \/ \E i \in KnownIds \cup {NO_SESSION_ID}, n \in ImageLens : triage_image(i, n)
    \/ \E i \in KnownIds, a \in Answers : triage_answer(i, a)
    \/ \E i \in KnownIds : get_session_endpoint(i)
    \/ \E i \in KnownIds, s \in SessionTexts : triage_session_text(i, s)
    \/ \E i \in KnownIds : delete_session(i)

Spec == Init /\ [][Next]_vars

(***************************************************************************)
(* The orchestrator's methods called directly (triage_orchestrator.py): the *)
(* operations createSession, getSession, submitText, submitImage and        *)
(* submitAnswer as any caller of TriageOrchestrator can invoke them, on a   *)
(* new or on an existing session                                            *)
(***************************************************************************)

\* Arguments of the direct calls.
Languages == { "en", "fr" }
OrchTexts == { "my knee hurts" }
OrchAnswers == { "It's throbbing" }

\* What the caller of a method gets: its return value, or the exception.
Returned(value) == [returned |-> value]
Outcome(ret) == IF Raised(ret) THEN ret ELSE Returned(ret)

\* create_session that drops its language argument (SessionCreate() instead
\* of SessionCreate(language=language)).
call_create_session_default_language(language) ==
    /\ NewSessionId(DB) <= MaxSessions
    /\ LET created == create_session(DB, "en")
       IN  /\ Commit(created.db)
           /\ request' = [op |-> "create_session", session_id |-> NO_SESSION_ID,
                          language |-> language]
           /\ response' = Returned(get_session(created.db, created.session_id))

\* await orchestrator.create_session(language): returns the new row.
call_create_session(language) ==
    /\ NewSessionId(DB) <= MaxSessions
    /\ LET created == create_session(DB, language)
       IN  /\ Commit(created.db)
           /\ request' = [op |-> "create_session", session_id |-> NO_SESSION_ID,
                          language |-> language]
           /\ response' = Returned(get_session(created.db, created.session_id))

\* await orchestrator.get_session(session_id): the row or None.
call_get_session(session_id) ==
    /\ request' = [op |-> "get_session", session_id |-> session_id]
    /\ response' = Returned(get_session(DB, session_id))
    /\ UNCHANGED << triage_sessions, triage_messages, triage_observations, triage_outputs >>

\* await orchestrator.process_text_triage(session_id, symptoms, severity, duration)
call_process_text_triage(session_id, symptoms, severity, duration) ==
    /\ UserMessages < MaxMessages
    /\ LET r == process_text_triage(DB, session_id, symptoms, severity, duration)
       IN  /\ Commit(r.db)
           /\ request' = [op |-> "process_text_triage", session_id |-> session_id,
                          symptoms |-> symptoms, severity |-> severity, duration |-> duration]
           /\ response' = Outcome(r.ret)

\* await orchestrator.process_image_triage(image_bytes, session_id)
call_process_image_triage(session_id, image_len) ==
    /\ session_id = NO_SESSION_ID => NewSessionId(DB) <= MaxSessions
    /\ Observations < MaxObservations
    /\ LET r == process_image_triage(DB, session_id, image_len)
       IN  /\ Commit(r.db)
           /\ request' = [op |-> "process_image_triage", session_id |-> session_id,
                          image_len |-> image_len]
           /\ response' = Outcome(r.ret)

\* await orchestrator.process_answer(session_id, answer)
call_process_answer(session_id, answer) ==
    /\ UserMessages < MaxMessages
    /\ LET r == process_answer(DB, session_id, answer)
       IN  /\ Commit(r.db)
           /\ request' = [op |-> "process_answer", session_id |-> session_id, answer |-> answer]
           /\ response' = Outcome(r.ret)

OrchNext ==
    \/ \E l \in Languages : call_create_session(l)
    \/ \E i \in KnownIds : call_get_session(i)
    \/ \E i \in KnownIds, s \in OrchTexts : call_process_text_triage(i, s, NoneStr, NoneStr)
    \/ \E i \in KnownIds \cup {NO_SESSION_ID}, n \in ImageLens : call_process_image_triage(i, n)
    \/ \E i \in KnownIds, a \in OrchAnswers : call_process_answer(i, a)

OrchSpec == Init /\ [][OrchNext]_vars

(***************************************************************************)
(* One client's text conversation through the endpoints: POST /text once,  *)
(* then answers on the session it was given                                *)
(***************************************************************************)

\* The symptom texts: a complaint with or without each kind of keyword, and
\* the text of test_systemic_routing.
ConvFever == { "", " with a fever", " but no fever" }
ConvHead == { "", " and a headache" }
ConvStomach == { "", " and stomach ache" }
ConvVomit == { "", " and vomiting", " and throwing up" }
ConvOther == { "", " and sweating", " and a cough", " and a stiff knee", " and an itchy rash" }
ConvTexts ==
    { "I feel weak" \o f \o h \o g \o v \o o :
        f \in ConvFever, h \in ConvHead, g \in ConvStomach, v \in ConvVomit,
        o \in ConvOther }
    \cup { "I have a high fever and headache" }
ConvDurations == { NoneStr, "1 day", "5 days", "6 days" }
ConvSeverities == { NoneStr, "medium" }
ConvAnswers == { "It's throbbing", "No, finalize now", "Fever started 2 days ago" }

\* The client's first request.
conv_text(symptoms, severity, duration) ==
    /\ \A i \in SessionIds : triage_sessions[i] = None
    /\ triage_text(symptoms, severity, duration)

\* An answer on the session the first request created.
conv_answer(answer) ==
    \E i \in SessionIds : triage_sessions[i] # None /\ triage_answer(i, answer)

ConvNext ==
    \/ \E s \in ConvTexts, sev \in ConvSeverities, d \in ConvDurations : conv_text(s, sev, d)
    \/ \E a \in ConvAnswers : conv_answer(a)

ConvSpec == Init /\ [][ConvNext]_vars

(***************************************************************************)
(* Properties                                                              *)
(***************************************************************************)

\* The last request was served by the handler op.
Served(op) == request # None /\ request.op = op

\* The last request was a triage turn and got a TriageResponse.
TurnOps == {"triage_text", "triage_image", "triage_answer", "triage_session_text"}
Answered == request # None /\ request.op \in TurnOps /\ response.status_code = 200

\* The text matches an emergency pattern of the safety service.
MatchesEmergency(text) ==
    \E n \in 1..Len(emergency_patterns) : ReSearch(emergency_patterns[n], Lower(text))

\* The response is the completed, critical emergency response.
CriticalCompleted ==
    /\ response.status_code = 200
    /\ response.body.status = "completed"
    /\ response.body.final_output # None
    /\ response.body.final_output.severity = "critical"
    /\ response.body.next_question = None

NamedSessionExists ==
    /\ request.session_id \in Ids
    /\ triage_sessions[request.session_id] # None

\* Some user message stored for the session matches an emergency pattern.
SomeUserTextUnsafe(session_id) ==
    \E n \in 1..Len(triage_messages[session_id]) :
        /\ triage_messages[session_id][n].sender = "user"
        /\ MatchesEmergency(triage_messages[session_id][n].content)

\* C2 (as claimed): on a turn on an existing session (an answer, or text added
\* to the session), if any user message of the session, the new input
\* included, matches an emergency pattern, the turn returns completed with
\* severity critical.
C2_SafetyRerunEveryTurn ==
    ( /\ Served("triage_answer") \/ Served("triage_session_text")
      /\ NamedSessionExists
      /\ SomeUserTextUnsafe(request.session_id) )
    => CriticalCompleted

\* C3: the first text turn of a session (POST /text creates the session, so it
\* has no observation and no AI message) whose text triggers no safety pattern
\* returns needs_more_info with a question and no final output.
C3_FirstTextTurnAsks ==
    (Served("triage_text") /\ ~MatchesEmergency(request.symptoms)) =>
        /\ response.status_code = 200
        /\ response.body.status = "needs_more_info"
        /\ response.body.next_question # None
        /\ response.body.final_output = None

\* A first text turn without emergency keywords was served and its question
\* was recorded as the session's only AI message.
C3_Witness ==
    /\ Served("triage_text")
    /\ ~MatchesEmergency(request.symptoms)
    /\ response.body.status = "needs_more_info"
    /\ \E i \in SessionIds :
        /\ response.body.session_id = i
        /\ Len(triage_messages[i]) = 2
        /\ triage_messages[i][2] = [sender |-> "ai", content |-> response.body.next_question.text]

\* C4 (as claimed): when a turn returns status completed, the stored session
\* has status completed and its output is the returned output; and an output
\* is stored only for a completed session.
C4_FinalizePersists ==
    /\ (Answered /\ response.body.status = "completed") =>
            /\ triage_sessions[response.body.session_id].status = "completed"
            /\ triage_outputs[response.body.session_id] = response.body.final_output
    /\ \A i \in Ids :
            triage_outputs[i] # None =>
                (triage_sessions[i] # None /\ triage_sessions[i].status = "completed")

\* C5 (as claimed), at the step that follows a completed turn: once a turn has
\* returned completed for a session, the next request appends no message and
\* no observation to that session, and if it is a turn on that session it
\* returns the same final output and no question.
C5_Step ==
    (Answered /\ response.body.status = "completed") =>
        LET s == response.body.session_id
        IN  /\ triage_messages'[s] = triage_messages[s]
            /\ triage_observations'[s] = triage_observations[s]
            /\ ( /\ request'.op \in TurnOps
                 /\ request'.session_id = s
                 /\ response'.status_code = 200 )
               => /\ response'.body.next_question = None
                  /\ response'.body.final_output = response.body.final_output
C5_CompletedImmutable == [][C5_Step]_vars

\* The observations the vision service reports for an upload.
SeenIn(image_len, what) == InList(what, analyze_image(image_len).observations)
WoundImage(image_len) == SeenIn(image_len, "open wound") /\ SeenIn(image_len, "bleeding")
RashImage(image_len) ==
    /\ SeenIn(image_len, "redness") \/ SeenIn(image_len, "rash")
    /\ ~SeenIn(image_len, "open wound")
    /\ ~SeenIn(image_len, "bleeding")

\* The upload went to a new session or to an existing one.
ImageOnSession == request.session_id = NO_SESSION_ID \/ NamedSessionExists

\* C6 (as claimed): an upload whose observations contain "open wound" and
\* "bleeding" finalizes in the same call, with the wound summary (contains
\* "wound", not "skin") and without a question.
C6_WoundImageFinalizes ==
    (Served("triage_image") /\ WoundImage(request.image_len) /\ ImageOnSession) =>
        /\ response.status_code = 200
        /\ response.body.status = "completed"
        /\ response.body.next_question = None
        /\ response.body.final_output # None
        /\ Contains(Lower(response.body.final_output.summary), "wound")
        /\ ~Contains(Lower(response.body.final_output.summary), "skin")

OutputByObservations(observations) ==
    LET seen == observations[Len(observations)].observation_data.observations
    IN  IF InList("open wound", seen) \/ InList("bleeding", seen) THEN _get_wound_response
        ELSE IF InList("redness", seen) \/ InList("rash", seen) THEN _get_skin_response
        ELSE _get_systemic_response

\* C8, for one step that serves an answer on an existing session: the branch
\* is chosen by the lowercased answer, tested in the order "upload another
\* image", "add symptoms", "finalize" or "no", anything else.
C8_Step ==
    (request'.op = "triage_answer" /\ triage_sessions[request'.session_id] # None) =>
        LET sid == request'.session_id
            ans == Lower(request'.answer)
            saved == add_message(DB, sid, "user", request'.answer)
            session == get_session(saved, sid)
            text == UserText(session.messages, 1)
            body == response'.body
        IN  /\ response'.status_code = 200
            /\ IF Contains(ans, "upload another image") THEN
                    /\ body.status = "needs_more_info"
                    /\ body.next_question # None
                    /\ body.next_question.id = "q_upload_prompt"
                    /\ body.final_output = None
               ELSE IF Contains(ans, "add symptoms") THEN
                    /\ body.status = "needs_more_info"
                    /\ body.next_question = GENERAL_QUESTIONS[1]
                    /\ body.final_output = None
               ELSE IF Contains(ans, "finalize") \/ Contains(ans, "no") THEN
                    /\ body.status = "completed"
                    /\ body.next_question = None
                    /\ body.final_output =
                         IF Len(session.observations) = 0
                         THEN analyze_symptoms([symptoms |-> text, observations |-> None,
                                                input_mode |-> "text"])
                         ELSE OutputByObservations(session.observations)
               ELSE
                    body = _decide_next_step(saved, sid,
                                _build_context(session, "",
                                    IF Len(session.observations) = 0 THEN "text" ELSE "mixed",
                                    NoneStr, NoneStr)).ret
C8_AnswerBranches == [][C8_Step]_vars

\* The answer "Yes, upload another image" holds both "upload another image"
\* and "no" (in "another"); it was given on a session with an observation and
\* got the upload prompt, not a final output.
C8_Witness ==
    /\ Served("triage_answer")
    /\ NamedSessionExists
    /\ Contains(Lower(request.answer), "upload another image")
    /\ Contains(Lower(request.answer), "no")
    /\ Len(triage_observations[request.session_id]) > 0
    /\ response.body.status = "needs_more_info"
    /\ response.body.next_question.id = "q_upload_prompt"

\* C9 (as claimed): a request that names a session id no session has is
\* answered with the Session-not-found error, and nothing is stored under
\* that id.
C9_UnknownSessionRejected ==
    /\ ( /\ request # None
         /\ request.session_id \in Ids
         /\ triage_sessions[request.session_id] = None )
       => /\ response.status_code = 404
          /\ response.detail = "Session not found"
    /\ \A i \in Ids :
        triage_sessions[i] = None =>
            (triage_messages[i] = << >> /\ triage_observations[i] = << >>)

\* C10 (as claimed), for one step that serves DELETE on an existing session:
\* the request succeeds and the session row is gone, so that a later
\* get_session finds none and reports Session not found.
C10_Step ==
    (request'.op = "delete_session" /\ triage_sessions[request'.session_id] # None) =>
        /\ response'.status_code = 200
        /\ get_session([sessions |-> triage_sessions', messages |-> triage_messages',
                        observations |-> triage_observations', outputs |-> triage_outputs'],
                       request'.session_id) = None
C10_DeleteRemoves == [][C10_Step]_vars

\* The last turn returned the confirmation question q_continue_1.
AskedConfirmation ==
    /\ Answered
    /\ response.body.next_question # None
    /\ response.body.next_question.id = "q_continue_1"

C19_Step ==
    ( /\ request'.op = "triage_image"
      /\ \/ request'.session_id = NO_SESSION_ID
         \/ triage_sessions[request'.session_id] # None )
    => LET observation == [source |-> "vision",
                           observation_data |-> analyze_image(request'.image_len)]
       IN  /\ response'.status_code = 200
           /\ IF request'.session_id = NO_SESSION_ID THEN
                \E i \in SessionIds :
                    /\ triage_sessions[i] = None
                    /\ triage_sessions'[i] # None
                    /\ \A j \in Ids \ {i} : triage_sessions'[j] = triage_sessions[j]
                    /\ response'.body.session_id = i
                    /\ triage_observations' =
                            [triage_observations EXCEPT ![i] = << observation >>]
              ELSE
                /\ triage_sessions' = triage_sessions
                /\ response'.body.session_id = request'.session_id
                /\ triage_observations' =
                        [triage_observations EXCEPT ![request'.session_id] =
                            Append(@, observation)]
C19_ImageSessionFrame == [][C19_Step]_vars

\* An image was uploaded to the first of two existing sessions: it holds the
\* observation, the other session holds none, and the first session's id came
\* back.
C19_Witness ==
    /\ Served("triage_image")
    /\ request.session_id = 1
    /\ triage_sessions[1] # None
    /\ triage_sessions[2] # None
    /\ Len(triage_observations[1]) = 1
    /\ Len(triage_observations[2]) = 0
    /\ response.body.session_id = 1

(***************************************************************************)
(* Properties of the text classifiers (ConvSpec)                           *)
(***************************************************************************)

\* The keywords of the question-time rules (generate_question, text mode).
QuestionInfectionWords == << "fever", "chills", "shivering", "hot" >>
QuestionHeadacheWords == << "headache", "head pain", "migraine" >>
QuestionGIWords == << "uneasy", "stomach", "nausea", "indigestion", "bloating", "gas" >>
VomitingWords == << "vomit", "throwing up", "puke" >>
QuestionMusculoWords ==
    << "pain", "ache", "sore", "hurt", "swelling", "stiff", "sprain", "strain",
       "thumb", "finger", "hand", "wrist", "arm", "elbow", "shoulder",
       "knee", "ankle", "foot", "toe", "leg", "hip", "back", "neck", "joint" >>
LongDurationWords == << "2 day", "3 day", "4 day", "5 day", "week" >>

\* The keywords of the answer-time rules (analyze_symptoms, text mode).
FinalHeadacheWords == << "headache", "head pain", "migraine", "head ache" >>
FinalGIWords ==
    << "stomach", "nausea", "vomit", "diarrhea", "bloating", "stomach pain",
       "abdominal", "belly", "gastric", "indigestion", "acid reflux", "heartburn" >>
FinalInfectionWords == << "fever", "chills", "cold", "flu", "temperature" >>
FinalRespiratoryWords ==
    << "cough", "breathing", "breath", "chest pain", "wheezing", "congestion",
       "runny nose", "sore throat", "throat pain" >>
FinalAutonomicWords ==
    << "sweating", "sweat", "shivering", "shiver", "trembling", "tremble",
       "shaking", "clammy", "cold sweat" >>
FeverDenials ==
    << "no fever", "don't have a fever", "don't have fever", "not have fever",
       "no temperature", "haven't got fever", "i don't have a fever", "i dont have fever" >>

\* The first text turn of a session was served and triggered no safety
\* pattern.
FirstTextTurn ==
    /\ Served("triage_text")
    /\ response.status_code = 200
    /\ ~MatchesEmergency(request.symptoms)

\* An answer on a text-only session was served and finalized.
FinalTurn ==
    /\ Served("triage_answer")
    /\ NamedSessionExists
    /\ Len(triage_observations[request.session_id]) = 0
    /\ response.status_code = 200
    /\ response.body.status = "completed"

\* All the user wrote in the session, lowercased.
Said(session_id) == Lower(UserText(triage_messages[session_id], 1))

DurationDays(d) ==
    CASE d = "1 day" -> 1
      [] d = "5 days" -> 5
      [] d = "6 days" -> 6
      [] OTHER -> 0

\* C14 (as claimed): on the first text turn, a text with a vomiting keyword
\* and a duration of 2 days or more gets the fever question; with a shorter
\* or no duration, and no fever and no headache keyword, it gets the GI
\* question.
C14_VomitingDurationRouting ==
    (FirstTextTurn /\ AnyIn(VomitingWords, Lower(request.symptoms))) =>
        IF DurationDays(request.duration) >= 2
        THEN response.body.next_question = SYSTEMIC_QUESTIONS[1]
        ELSE ( /\ ~AnyIn(QuestionInfectionWords, Lower(request.symptoms))
               /\ ~AnyIn(QuestionHeadacheWords, Lower(request.symptoms)) )
             => response.body.next_question = GI_QUESTIONS[1]

\* C15 (as claimed): a text-only session whose user text has a vomiting
\* keyword and no autonomic, headache, infection or respiratory keyword
\* finalizes with the GI output, whatever its first question was.
C15_VomitingFinalizesGI ==
    ( /\ FinalTurn
      /\ AnyIn(VomitingWords, Said(request.session_id))
      /\ ~AnyIn(FinalAutonomicWords, Said(request.session_id))
      /\ ~AnyIn(FinalHeadacheWords, Said(request.session_id))
      /\ ~AnyIn(FinalInfectionWords, Said(request.session_id))
      /\ ~AnyIn(FinalRespiratoryWords, Said(request.session_id)) )
    => response.body.final_output = _get_gi_response

\* C15 (amended): the same for the one vomiting keyword the final classifier
\* knows, "vomit".
C15_VomitFinalizesGI ==
    ( /\ FinalTurn
      /\ Contains(Said(request.session_id), "vomit")
      /\ ~AnyIn(FinalAutonomicWords, Said(request.session_id))
      /\ ~AnyIn(FinalHeadacheWords, Said(request.session_id))
      /\ ~AnyIn(FinalInfectionWords, Said(request.session_id))
      /\ ~AnyIn(FinalRespiratoryWords, Said(request.session_id)) )
    => response.body.final_output = _get_gi_response

\* A session whose only symptom keyword is "vomiting" was asked the fever
\* question on its first turn (long duration) and finalized with the GI
\* output.
C15_Witness ==
    /\ FinalTurn
    /\ Contains(Said(request.session_id), "vomit")
    /\ ~Contains(Said(request.session_id), "stomach")
    /\ ~Contains(Said(request.session_id), "fever")
    /\ triage_messages[request.session_id][2] =
            [sender |-> "ai", content |-> SYSTEMIC_QUESTIONS[1].text]
    /\ response.body.final_output = _get_gi_response

C17_FeverQuestionThenSystemic ==
    ( /\ FinalTurn
      /\ Len(triage_messages[request.session_id]) = 3
      /\ Contains(Lower(triage_messages[request.session_id][1].content), "fever")
      /\ triage_messages[request.session_id][2] =
            [sender |-> "ai", content |-> SYSTEMIC_QUESTIONS[1].text] )
    => /\ response.body.final_output = _get_systemic_response
       /\ Contains(Lower(response.body.final_output.summary), "viral")

\* The questions a text may be asked.
TextQuestions ==
    { SYSTEMIC_QUESTIONS[1], HEADACHE_QUESTIONS[1], GI_QUESTIONS[1],
      MUSCULOSKELETAL_QUESTIONS[1], GENERAL_QUESTIONS[1] }

Called(op) == request # None /\ request.op = op /\ ~Raised(response)

\* C11: right after create_session(language), get_session on the id of the
\* returned session finds that session: same id, status collecting, the
\* language given, no message, no observation and no output, whatever rows the
\* tables already hold.
C11_CreateGetRoundTrip ==
    Called("create_session") =>
        LET id == response.returned.id
        IN  /\ id \in SessionIds
            /\ get_session(DB, id) =
                    [id |-> id, status |-> "collecting", language |-> request.language,
                     messages |-> << >>, observations |-> << >>, output |-> None]
            /\ get_session(DB, id) = response.returned

\* A session was created with language "fr" while another session already
\* held a message and an observation, and an orphan row existed as well.
C11_Witness ==
    /\ Called("create_session")
    /\ request.language = "fr"
    /\ response.returned.id = 2
    /\ get_session(DB, 2).status = "collecting"
    /\ get_session(DB, 2).messages = << >>
    /\ Len(triage_messages[1]) > 0
    /\ Len(triage_observations[UNKNOWN_ID]) > 0

\* The latest observation recorded for the session reports an open wound or
\* bleeding.
LatestObservationIsWound(session_id) ==
    /\ Len(triage_observations[session_id]) > 0
    /\ LET seen == triage_observations[session_id][Len(triage_observations[session_id])]
                        .observation_data.observations
       IN  InList("open wound", seen) \/ InList("bleeding", seen)

\* The last call reached the decision step: a text turn, or an answer that
\* takes none of the three confirmation branches.
ReachedDecision ==
    /\ request # None
    /\ request.session_id \in SessionIds
    /\ triage_sessions[request.session_id] # None
    /\ \/ request.op = "process_text_triage"
       \/ /\ request.op = "process_answer"
          /\ ~Contains(Lower(request.answer), "upload another image")
          /\ ~Contains(Lower(request.answer), "add symptoms")
          /\ ~Contains(Lower(request.answer), "finalize")
          /\ ~Contains(Lower(request.answer), "no")

AIMessages(messages) ==
    Cardinality({n \in 1..Len(messages) : messages[n].sender = "ai"})

\* The text the last call submitted.
Submitted == IF request.op = "process_answer" THEN request.answer ELSE request.symptoms

C21_Step ==
    ( /\ ReachedDecision'
      /\ Len(triage_observations'[request'.session_id]) = 0
      /\ \A n \in 1..Len(triage_messages'[request'.session_id]) :
            ~MatchesEmergency(triage_messages'[request'.session_id][n].content) )
    => LET sid == request'.session_id
           asked == AIMessages(triage_messages[sid])
       IN  /\ ~Raised(response')
           /\ AIMessages(triage_messages'[sid]) <= 1
           /\ asked = 0 =>
                /\ response'.returned.status = "needs_more_info"
                /\ response'.returned.next_question # None
                /\ triage_messages'[sid] =
                        triage_messages[sid]
                            \o << [sender |-> "user", content |-> Submitted'],
                                  [sender |-> "ai",
                                   content |-> response'.returned.next_question.text] >>
           /\ asked >= 1 =>
                /\ response'.returned.status = "completed"
                /\ response'.returned.next_question = None
                /\ response'.returned.final_output # None
                /\ triage_messages'[sid] =
                        Append(triage_messages[sid],
                               [sender |-> "user", content |-> Submitted'])

\* C21: in a session without observations, a turn that reaches the decision
\* step with no AI message recorded returns a question and appends it as the
\* session's AI message; a turn that reaches it with an AI message recorded
\* returns completed and appends no AI message; the session never holds more
\* than one AI message.
C21_QuestionAskedAtMostOnce == [][C21_Step]_vars

\* A second text turn on a session without observations completed it: the
\* session holds two user messages and the one question asked by the first.
C21_Witness ==
    /\ ReachedDecision
    /\ Called("process_text_triage")
    /\ Len(triage_observations[request.session_id]) = 0
    /\ Len(triage_messages[request.session_id]) = 3
    /\ AIMessages(triage_messages[request.session_id]) = 1
    /\ triage_messages[request.session_id][2].sender = "ai"
    /\ response.returned.status = "completed"

(***************************************************************************)
(* The services' functions applied to arguments drawn from bounded sets:   *)
(* ReasoningService.analyze_symptoms, SafetyService.check_safety and       *)
(* TriageOrchestrator._decide_next_step                                    *)
(***************************************************************************)

\* Texts for the answer-time classifier: a complaint with or without a word
\* of each keyword group.
FnAutonomic == { "", " and sweating" }
FnFever == { "", " with a fever", " but no fever" }
FnHeadache == { "", " and a migraine" }
FnRespiratory == { "", " and a cough" }
FnGI == { "", " and nausea" }
FnSkin == { "", " and hives" }
FnMusculo == { "", " and a stiff knee" }
FnTexts ==
    { "I feel unwell" \o a \o f \o h \o r \o g \o s \o m :
        a \in FnAutonomic, f \in FnFever, h \in FnHeadache, r \in FnRespiratory,
        g \in FnGI, s \in FnSkin, m \in FnMusculo }

\* Texts for the safety scanner: with or without a phrase of each emergency
\* sub-type, and one whose only emergency phrase is of no sub-type.
FnCardiac == { "", " Heart attack." }
FnBreathing == { "", " I cannot breathe." }
FnStroke == { "", " Slurred speech." }
FnCrisis == { "", " I want to die." }
FnOther == { "", " An overdose." }
FnEmergencyTexts ==
    { "Help me." \o c \o b \o s \o m \o o :
        c \in FnCardiac, b \in FnBreathing, s \in FnStroke, m \in FnCrisis, o \in FnOther }
    \cup { "She fainted on the stairs" }

\* The observation data of a session_data: the stub's two results, and a
\* result that reports neither a wound nor a skin indicator.
FnSwelling ==
    [body_part |-> "ankle",
     observations |-> << "mild swelling", "bruising" >>,
     quality_flags |-> << >>,
     vision_confidence |-> [swelling |-> 65]]
FnObservations == { analyze_image(5), analyze_image(4), FnSwelling }

\* The combined text of a session with observations: nothing, or the user
\* messages _build_context joins.
FnMixedTexts ==
    { "", "\nI have a migraine", "\nmy stomach hurts and nausea", "\nNo, finalize now" }

\* The session_data dicts analyze_symptoms is applied to.
FnSessionData ==
    { [symptoms |-> t, observations |-> None, question_count |-> 1,
       input_mode |-> "text", severity |-> NoneStr, duration |-> NoneStr] : t \in FnTexts }
    \cup
    { [symptoms |-> t, observations |-> o, question_count |-> 0,
       input_mode |-> m, severity |-> NoneStr, duration |-> NoneStr] :
        t \in FnMixedTexts, o \in FnObservations, m \in { "image", "mixed" } }

\* The contexts _decide_next_step is applied to.
FnDecisionTexts ==
    { "I feel unwell", "I feel unwell and a migraine", "I feel unwell and sweating",
      "Help me. I cannot breathe.", "Help me. An overdose.", "my knee hurts\nHeart attack." }
FnContexts ==
    { [symptoms |-> t, observations |-> o, question_count |-> n,
       input_mode |-> m, severity |-> NoneStr, duration |-> NoneStr] :
        t \in FnDecisionTexts, o \in FnObservations \cup { None }, n \in { 0, 1 },
        m \in { "text", "mixed" } }

\* The calls: which function, on which arguments.
FnCalls ==
    { [op |-> "analyze_symptoms", session_data |-> d] : d \in FnSessionData }
    \cup { [op |-> "check_safety", text_input |-> t] : t \in FnEmergencyTexts \cup FnTexts }
    \cup { [op |-> "_decide_next_step", session_id |-> 1, context |-> c] : c \in FnContexts }

\* One session exists; a call is chosen and not yet made.
FnInit ==
    /\ triage_sessions = [i \in Ids |-> IF i = 1
                                        THEN [id |-> 1, status |-> "collecting", language |-> "en"]
                                        ELSE None]
    /\ triage_messages = [i \in Ids |-> << >>]
    /\ triage_observations = [i \in Ids |-> << >>]
    /\ triage_outputs = [i \in Ids |-> None]
    /\ request \in FnCalls
    /\ response = None

\* await reasoning_service.analyze_symptoms(session_data)
apply_analyze_symptoms ==
    /\ response = None
    /\ request.op = "analyze_symptoms"
    /\ response' = Returned(analyze_symptoms(request.session_data))
    /\ UNCHANGED << triage_sessions, triage_messages, triage_observations, triage_outputs, request >>

\* await safety_service.check_safety(text_input)
apply_check_safety ==
    /\ response = None
    /\ request.op = "check_safety"
    /\ response' = Returned(check_safety(request.text_input))
    /\ UNCHANGED << triage_sessions, triage_messages, triage_observations, triage_outputs, request >>

\* await self._decide_next_step(session_id, context)
apply_decide_next_step ==
    /\ response = None
    /\ request.op = "_decide_next_step"
    /\ LET r == _decide_next_step(DB, request.session_id, request.context)
       IN  /\ Commit(r.db)
           /\ response' = Returned(r.ret)
    /\ UNCHANGED request

FnNext ==
    \/ apply_analyze_symptoms
    \/ apply_check_safety
    \/ apply_decide_next_step

FnSpec == FnInit /\ [][FnNext]_vars

(***************************************************************************)
(* Properties of the functions (FnSpec)                                    *)
(***************************************************************************)

\* The function op was applied and returned.
Applied(op) == request.op = op /\ response # None

\* The observation list the session_data of the call carries.
CallObservations == ObsList(request.session_data)

\* The session_data has observations and the latest reports neither a wound
\* indicator nor a skin indicator.
NoIndicatorObserved ==
    /\ request.session_data.observations # None
    /\ ~InList("open wound", CallObservations) /\ ~InList("bleeding", CallObservations)
    /\ ~InList("redness", CallObservations) /\ ~InList("rash", CallObservations)

ImgAnswers == { "No, finalize now", "Yes, upload another image", "It's throbbing" }
ImgTexts == { "It itches" }

\* The session id the client sends with an upload: none on its first
\* request, afterwards the id it was given.
ImgSessionId ==
    IF \A i \in SessionIds : triage_sessions[i] = None THEN NO_SESSION_ID
    ELSE CHOOSE i \in SessionIds : triage_sessions[i] # None

\* POST /image; the conversation holds one image more than MaxObservations.
img_image(image_len) ==
    /\ Observations <= MaxObservations
    /\ LET r == process_image_triage(DB, ImgSessionId, image_len)
       IN  /\ Commit(r.db)
           /\ request' = [op |-> "triage_image", session_id |-> ImgSessionId,
                          image_len |-> image_len]
           /\ response' = Reply(r.ret)

\* An answer on the session of the conversation.
img_answer(answer) ==
    /\ ImgSessionId # NO_SESSION_ID
    /\ triage_answer(ImgSessionId, answer)

\* A text added to the session of the conversation.
img_session_text(symptoms) ==
    /\ ImgSessionId # NO_SESSION_ID
    /\ triage_session_text(ImgSessionId, symptoms)

ImgNext ==
    \/ \E n \in ImageLens : img_image(n)
    \/ \E a \in ImgAnswers : img_answer(a)
    \/ \E s \in ImgTexts : img_session_text(s)

ImgSpec == Init /\ [][ImgNext]_vars

(***************************************************************************)
(* Properties of the image conversation (ImgSpec)                          *)
(***************************************************************************)

\* The observations of the session the last request named, oldest first.
SessionObservations == triage_observations[request.session_id]

\* The last request was an answer that finalized its session.
Finalized ==
    /\ Served("triage_answer")
    /\ response.status_code = 200
    /\ response.body.status = "completed"

\* C23: finalizing a session with observations yields the output for its
\* latest observation alone (the wound output if that reports an open wound
\* or bleeding, the skin output if it reports redness or a rash), whatever
\* the earlier observations are.
C23_LatestObservationDecides ==
    ( Finalized /\ Len(SessionObservations) > 0 )
    => LET latest == SessionObservations[Len(SessionObservations)].observation_data.observations
       IN  response.body.final_output =
                IF InList("open wound", latest) \/ InList("bleeding", latest)
                THEN _get_wound_response
                ELSE _get_skin_response

\* A session that received a wound image and then a rash image was finalized
\* with the skin output.
C23_Witness ==
    /\ Finalized
    /\ Len(SessionObservations) = 2
    /\ InList("open wound", SessionObservations[1].observation_data.observations)
    /\ InList("redness", SessionObservations[2].observation_data.observations)
    /\ response.body.final_output = _get_skin_response

\* The reverse order: a rash image, then a wound image, finalized with the
\* wound output.
C23_WitnessReverse ==
    /\ Finalized
    /\ Len(SessionObservations) = 2
    /\ InList("redness", SessionObservations[1].observation_data.observations)
    /\ InList("open wound", SessionObservations[2].observation_data.observations)
    /\ response.body.final_output = _get_wound_response

\* The remaining keyword groups of the answer-time classifier.
FinalSkinWords == << "rash", "itchy", "itching", "hives", "skin", "bump", "acne", "pimple" >>
FinalBodyParts ==
    << "thumb", "finger", "hand", "wrist", "arm", "elbow", "shoulder",
       "knee", "ankle", "foot", "toe", "leg", "hip", "back", "neck",
       "joint", "muscle", "spine" >>
FinalMusculoIndicators == << "sprain", "strain", "swelling", "stiff", "ache", "sore", "injury" >>

\* The rules in the claimed order, each with whether the lowercased text t
\* matches it and the template it returns.
Rule(matches, template) == [matches |-> matches, template |-> template]
ClassificationRules(t) ==
    << Rule(/\ AnyIn(FinalAutonomicWords, t)
            /\ AnyIn(FeverDenials, t) \/ ~AnyIn(FinalInfectionWords, t),
            _get_autonomic_response),
       Rule(AnyIn(FinalHeadacheWords, t), _get_headache_response),
       Rule(AnyIn(FinalInfectionWords, t) /\ ~AnyIn(FeverDenials, t), _get_systemic_response),
       Rule(AnyIn(FinalRespiratoryWords, t), _get_respiratory_response),
       Rule(AnyIn(FinalGIWords, t), _get_gi_response),
       Rule(AnyIn(FinalSkinWords, t), _get_skin_response),
       Rule(AnyIn(FinalBodyParts, t) \/ AnyIn(FinalMusculoIndicators, t),
            _get_musculoskeletal_response(t)),
       Rule(TRUE, _get_general_response(t)) >>

\* analyze_symptoms was applied in text mode.
ClassifiedText == Applied("analyze_symptoms") /\ request.session_data.input_mode = "text"

CardiacTerms == << "cardiac", "heart", "chest pain", "chest tight", "chest pressure" >>
RespiratoryTerms == << "breathe", "breathing", "choking", "gasping", "air" >>
StrokeTerms == << "stroke", "slurred", "face droop", "arm weak", "sudden numb" >>
MentalHealthTerms == << "suicid", "kill myself", "want to die", "harm myself" >>

\* The sub-type of the lowercased text t by the claimed priority, as the
\* index of its row below (5 is the generic sub-type).
EmergencySubType(t) ==
    IF AnyIn(CardiacTerms, t) THEN 1
    ELSE IF AnyIn(RespiratoryTerms, t) THEN 2
    ELSE IF AnyIn(StrokeTerms, t) THEN 3
    ELSE IF AnyIn(MentalHealthTerms, t) THEN 4
    ELSE 5

\* Per sub-type: the summary shown, and a text of that sub-type alone.
EmergencySummaries ==
    << "CRITICAL: POTENTIAL CARDIAC EMERGENCY DETECTED",
       "CRITICAL: BREATHING EMERGENCY DETECTED",
       "CRITICAL: POTENTIAL STROKE - TIME IS CRITICAL",
       "CRISIS SUPPORT NEEDED - You are not alone",
       "CRITICAL: EMERGENCY SYMPTOMS DETECTED" >>
SubTypeAlone == << "cardiac arrest", "choking", "stroke", "suicidal", "overdose" >>

\* check_safety was applied to a text that matches an emergency pattern.
ScannedEmergency == Applied("check_safety") /\ MatchesEmergency(request.text_input)

DecidedFinal ==
    /\ Applied("_decide_next_step")
    /\ response.returned.status = "completed"

C29_WitnessTemplate ==
    /\ DecidedFinal
    /\ check_safety(request.context.symptoms) = None
    /\ response.returned.final_output = _get_wound_response
    /\ response.returned.final_output.severity = "medium"

(***************************************************************************)
(* Further properties of the endpoints (Spec)                              *)
(***************************************************************************)

\* C28: every TriageResponse a turn returns (text, image, answer, text added
\* to a session) has status needs_more_info or completed; with
\* needs_more_info it carries a question and no final output, with completed
\* a final output and no question.
C28_ResponseWellFormed ==
    Answered =>
        /\ response.body.status \in { "needs_more_info", "completed" }
        /\ response.body.status = "needs_more_info" =>
                /\ response.body.next_question # None
                /\ response.body.final_output = None
        /\ response.body.status = "completed" =>
                /\ response.body.final_output # None
                /\ response.body.next_question = None

\* A text added to a session that holds an observation was answered with
\* needs_more_info, a question and no final output.
C28_Witness ==
    /\ Served("triage_session_text")
    /\ response.status_code = 200
    /\ Len(triage_observations[request.session_id]) > 0
    /\ response.body.status = "needs_more_info"
    /\ response.body.next_question # None
    /\ response.body.final_output = None

\* rows is old with the rows of more appended.
Appended(old, more, rows) == rows = old \o more

\* The text a request submits.
SubmittedBy(req) ==
    IF req.op = "triage_answer" THEN req.answer ELSE req.symptoms

\* The request goes through the decision step: a first text, or an answer
\* that names none of the three continuations.
DecisionTurn(req) ==
    \/ req.op = "triage_text"
    \/ /\ req.op = "triage_answer"
       /\ ~Contains(Lower(req.answer), "upload another image")
       /\ ~Contains(Lower(req.answer), "add symptoms")
       /\ ~Contains(Lower(req.answer), "finalize")
       /\ ~Contains(Lower(req.answer), "no")

C30_Step ==
    \* nothing recorded is modified or removed (deleting a session is C10's matter)
    /\ request'.op # "delete_session" =>
        \A i \in Ids :
            /\ Len(triage_messages[i]) <= Len(triage_messages'[i])
            /\ SubSeq(triage_messages'[i], 1, Len(triage_messages[i])) = triage_messages[i]
            /\ Len(triage_observations[i]) <= Len(triage_observations'[i])
            /\ SubSeq(triage_observations'[i], 1, Len(triage_observations[i]))
                    = triage_observations[i]
    \* a turn that is answered appends its rows to its session and nothing else
    /\ ( request'.op \in TurnOps /\ response'.status_code = 200 ) =>
        LET sid == response'.body.session_id
            asked == DecisionTurn(request') /\ response'.body.status = "needs_more_info"
        IN  /\ \A i \in Ids \ {sid} :
                /\ triage_messages'[i] = triage_messages[i]
                /\ triage_observations'[i] = triage_observations[i]
            /\ IF request'.op = "triage_image" THEN
                    /\ triage_messages'[sid] = triage_messages[sid]
                    /\ Appended(triage_observations[sid],
                                << [source |-> "vision",
                                    observation_data |-> analyze_image(request'.image_len)] >>,
                                triage_observations'[sid])
               ELSE
                    /\ triage_observations'[sid] = triage_observations[sid]
                    /\ Appended(triage_messages[sid],
                                << [sender |-> "user", content |-> SubmittedBy(request')] >>
                                \o IF asked
                                   THEN << [sender |-> "ai",
                                            content |-> response'.body.next_question.text] >>
                                   ELSE << >>,
                                triage_messages'[sid])

\* C30: no turn and no read modifies or removes a recorded message or
\* observation; an
\* answered text, answer or session text appends exactly one user message to
\* its session and no observation, followed by one AI message exactly when
\* the decision step asked a follow-up question (the confirmation, upload
\* prompt and add-symptoms questions are returned without a message); an
\* answered image appends exactly one observation and no message.
C30_AppendOnlyFootprint == [][C30_Step]_vars

\* The answer "Yes, add symptoms in text" got the open-ended question, and the
\* session's last message is that answer: the question was not recorded.
C30_Witness ==
    /\ Served("triage_answer")
    /\ response.status_code = 200
    /\ Contains(Lower(request.answer), "add symptoms")
    /\ response.body.status = "needs_more_info"
    /\ response.body.next_question = GENERAL_QUESTIONS[1]
    /\ LET messages == triage_messages[request.session_id]
       IN  /\ Len(messages) > 0
           /\ messages[Len(messages)] = [sender |-> "user", content |-> request.answer]

\* The session a turn is on: the one the request names, or the one the turn
\* creates.
TurnSession(db, req) ==
    IF req.session_id = NO_SESSION_ID THEN NewSessionId(db) ELSE req.session_id

\* The database with every session but sid emptied: no messages, no
\* observations, no output, and another status and language.
Isolated(db, sid) ==
    [sessions |-> [i \in Ids |->
                        IF i = sid \/ db.sessions[i] = None THEN db.sessions[i]
                        ELSE [id |-> i, status |-> "completed", language |-> "xx"]],
     messages |-> [i \in Ids |-> IF i = sid THEN db.messages[i] ELSE << >>],
     observations |-> [i \in Ids |-> IF i = sid THEN db.observations[i] ELSE << >>],
     outputs |-> [i \in Ids |-> IF i = sid THEN db.outputs[i] ELSE None]]

\* What the endpoint of the turn req answers on the database db.
TurnResponse(db, req) ==
    CASE req.op = "triage_text" ->
            LET created == create_session(db, "en")
            IN  Reply(process_text_triage(created.db, created.session_id,
                                          req.symptoms, req.severity, req.duration).ret)
      [] req.op = "triage_image" ->
            Reply(process_image_triage(db, req.session_id, req.image_len).ret)
      [] req.op = "triage_answer" ->
            IF get_session(db, req.session_id) = None
            THEN HTTPException(404, "Session not found")
            ELSE Reply(process_answer(db, req.session_id, req.answer).ret)
      [] req.op = "triage_session_text" ->
            IF get_session(db, req.session_id) = None
            THEN HTTPException(404, "Session not found")
            ELSE Reply(process_session_text(db, req.session_id, req.symptoms).ret)

C26_Step ==
    request'.op \in TurnOps =>
        LET sid == TurnSession(DB, request')
        IN  /\ \A i \in Ids \ {sid} :
                /\ triage_sessions'[i] = triage_sessions[i]
                /\ triage_messages'[i] = triage_messages[i]
                /\ triage_observations'[i] = triage_observations[i]
                /\ triage_outputs'[i] = triage_outputs[i]
            /\ response' = TurnResponse(Isolated(DB, sid), request')

\* C26: a turn leaves the row, the messages, the observations and the output
\* of every other session unchanged, and its response is the one the same
\* request gets when every other session is emptied: it depends only on the
\* turn's own session and input.
C26_SessionsIndependent == [][C26_Step]_vars

\* A first text opened a second session and was asked a question while the
\* first session held a message that matches an emergency pattern.
C26_Witness ==
    /\ Served("triage_text")
    /\ response.status_code = 200
    /\ response.body.session_id = 2
    /\ SomeUserTextUnsafe(1)
    /\ ~SomeUserTextUnsafe(2)
    /\ response.body.status = "needs_more_info"

(***************************************************************************)
(* Two server processes on the same database (uvicorn workers, or the      *)
(* standalone diagnostics service next to the unified app: both open       *)
(* sql_app.db), each serving process_text_triage turns on one session.     *)
(* A turn is three steps with a commit or a query of its own: save the     *)
(* user message, reload the session, decide.  Here request and response    *)
(* hold one entry per process.                                             *)
(***************************************************************************)

Workers == { 1, 2 }
RaceTexts == { "my knee hurts", "I feel uneasy in my stomach", "I cannot breathe" }
\* The session the turns are on.
RaceSession == 1

\* The session exists (create_session("en") has returned) and no process is
\* serving a turn.
RaceInit ==
    /\ triage_sessions = [i \in Ids |-> IF i = RaceSession
                                        THEN [id |-> i, status |-> "collecting", language |-> "en"]
                                        ELSE None]
    /\ triage_messages = [i \in Ids |-> << >>]
    /\ triage_observations = [i \in Ids |-> << >>]
    /\ triage_outputs = [i \in Ids |-> None]
    /\ request = [w \in Workers |-> [pc |-> "idle"]]
    /\ response = [w \in Workers |-> None]

\* process_text_triage, step 1: add_message inserts the user message and
\* commits.
race_save(w, symptoms) ==
    /\ request[w].pc = "idle"
    /\ UserMessages < MaxMessages
    /\ Commit(add_message(DB, RaceSession, "user", symptoms))
    /\ request' = [request EXCEPT ![w] =
                        [pc |-> "saved", op |-> "process_text_triage",
                         session_id |-> RaceSession, symptoms |-> symptoms]]
    /\ response' = [response EXCEPT ![w] = None]

\* Step 2: get_session queries the row with its messages and observations.
race_reload(w) ==
    /\ request[w].pc = "saved"
    /\ request' = [request EXCEPT ![w] =
                        [pc |-> "loaded", op |-> "process_text_triage",
                         session_id |-> RaceSession, symptoms |-> request[w].symptoms,
                         session |-> get_session(DB, RaceSession)]]
    /\ UNCHANGED << triage_sessions, triage_messages, triage_observations, triage_outputs,
                    response >>

\* Step 3: _build_context on the rows loaded, then _decide_next_step, which
\* commits the AI message if it asks.
race_decide(w) ==
    /\ request[w].pc = "loaded"
    /\ LET context == _build_context(request[w].session, request[w].symptoms, "text",
                                     NoneStr, NoneStr)
           r == _decide_next_step(DB, RaceSession, context)
       IN  /\ Commit(r.db)
           /\ response' = [response EXCEPT ![w] = Outcome(r.ret)]
    /\ request' = [request EXCEPT ![w] =
                        [pc |-> "idle", op |-> "process_text_triage",
                         session_id |-> RaceSession, symptoms |-> request[w].symptoms]]

RaceNext ==
    \/ \E w \in Workers, s \in RaceTexts : race_save(w, s)
    \/ \E w \in Workers : race_reload(w)
    \/ \E w \in Workers : race_decide(w)

RaceSpec == RaceInit /\ [][RaceNext]_vars

(***************************************************************************)
(* Properties of the concurrent turns (RaceSpec)                           *)
(***************************************************************************)

\* The process was returned a follow-up question by its last turn.
GotQuestion(w) ==
    /\ response[w] # None
    /\ ~Raised(response[w])
    /\ response[w].returned.status = "needs_more_info"

====
